---- MODULE Spec2Model ----
(***************************************************************************)
(* Model of the Redox OS CI dashboard (willnode/redox-ci-status).          *)
(*                                                                         *)
(* The newest revision of the server lives in src/unnamed/part_001 (the    *)
(* app: configuration, cache, fetchGitLabData, download,                    *)
(* fetchArtifactStatus, the request handler) and of the view in            *)
(* src/unnamed/part_000, lines 1-206 (generateHtml).  src/app.ts holds     *)
(* older revisions of the same code.                                       *)
(*                                                                         *)
(* Values that may be null / undefined in the program are modelled as      *)
(* sequences of length 0 (absent) or 1 (present): None, Some(v).           *)
(* Strings that the program cuts (commit hashes, entry names) are          *)
(* sequences of one-character strings.                                     *)
(***************************************************************************)
EXTENDS Integers, Sequences, FiniteSets, TLC

VARIABLES
    clock,              \* Date.now(), in milliseconds
    ticks,              \* number of clock advances so far (bounded)
    cachedGitlabData,   \* ProjectInfo[] | null
    cachedArtifactData, \* ArtifactInfo[] | null
    lastCacheTime,      \* number
    req,                \* one record per HTTP request to "/"
    out,                \* what the last step did: the response it sent, if any
    lastCycleAllFailed, \* history: every call of the last completed refresh cycle failed
    fx                  \* state of the other specifications (SpecGitlab, SpecArtifact, SpecClassify,
                        \* SpecScan, SpecScanAll, SpecEntry, SpecReread, SpecCycle, SpecChain) and the
                        \* inputs of SpecHandle

vars == <<clock, ticks, cachedGitlabData, cachedArtifactData, lastCacheTime, req, out, lastCycleAllFailed, fx>>

None == <<>>
Some(v) == <<v>>
IsSome(o) == Len(o) = 1
Get(o) == o[1]

Min(a, b) == IF a < b THEN a ELSE b

RECURSIVE Flatten(_)
\* Array.prototype.flat of a sequence of sequences
Flatten(ss) == IF ss = <<>> THEN <<>> ELSE Head(ss) \o Flatten(Tail(ss))

\* The array a map() builds, from the function giving its n elements
ArrayOf(f, n) == SubSeq(f, 1, n)

\* String.prototype.startsWith
StartsWith(s, p) == Len(s) >= Len(p) /\ SubSeq(s, 1, Len(p)) = p

\* String.prototype.substring(0, n)
Substring0(s, n) == SubSeq(s, 1, Min(Len(s), n))

(***************************************************************************)
(* Configuration                                                           *)
(***************************************************************************)
CACHE_DURATION_MS == 1 * 60 * 60 * 1000
ARTIFACT_STALE_HOURS == 24
MS_PER_HOUR == 1000 * 60 * 60
SHORT_HASH_LEN == 7

\* The tracked projects: three of the sixteen entries of the program's list,
\* one with no package, one with one package, one with two packages.
PROJECTS_TO_TRACK ==
    << [path |-> "redox-os/redox",  branch |-> "master", pkg |-> <<>>],
       [path |-> "redox-os/relibc", branch |-> "master", pkg |-> <<"relibc">>],
       [path |-> "redox-os/base",   branch |-> "main",   pkg |-> <<"base", "base-initfs">>] >>

ProjIdx == 1..Len(PROJECTS_TO_TRACK)

\* The tracked platforms: two of the program's four tokens.
ARTIFACTS_TO_TRACK == << <<"x", "8", "6">>, <<"a", "a", "r", "c", "h">> >>

ArchIdx == 1..Len(ARTIFACTS_TO_TRACK)

(***************************************************************************)
(* Commit hashes.  H1 and H1x agree on their first seven characters.       *)
(***************************************************************************)
H1  == <<"a", "b", "c", "d", "e", "f", "1", "0">>
H1x == <<"a", "b", "c", "d", "e", "f", "1", "9">>
H2  == <<"a", "b", "c", "d", "e", "f", "2", "0">>
HShort == <<"a", "b", "c">>
HDash == <<"-">>
HEmpty == <<>>

(***************************************************************************)
(* fetchGitLabData                                                         *)
(*                                                                         *)
(* The answers of the GitLab API to one project's three calls:             *)
(*   lookup   "ok" | "notok" (response.ok false) | "throw" (network error  *)
(*            or a body that is not JSON)                                   *)
(*   pipeline "throw" | "none" (no element 0) | the latest pipeline status *)
(*   commit   "throw" | "none" | "some", with the commit's id              *)
(***************************************************************************)
LookupOutcomes == {"ok", "notok", "throw"}
PipelineOutcomes == {"throw", "none", "success", "failed", "skipped"}
CommitOutcomes ==
    {[kind |-> "throw", id |-> HEmpty], [kind |-> "none", id |-> HEmpty],
     [kind |-> "some", id |-> H1]}

ProjNets == [lookup : LookupOutcomes, pipeline : PipelineOutcomes, commit : CommitOutcomes]

\* A plausible slip: the status taken without its || 'no-pipelines' default
ProjectChainBody_NoDefault(i, net) ==
    IF net.lookup = "throw" THEN [threw |-> TRUE, value |-> None]
    ELSE IF net.lookup = "notok" THEN [threw |-> FALSE, value |-> None]
    ELSE IF net.pipeline = "throw" THEN [threw |-> TRUE, value |-> None]
    ELSE IF net.commit.kind = "throw" THEN [threw |-> TRUE, value |-> None]
    ELSE [threw |-> FALSE,
          value |-> Some([path |-> PROJECTS_TO_TRACK[i].path,
                          status |-> IF net.pipeline = "none" THEN "undefined" ELSE net.pipeline,
                          pipelineUrl |-> IF net.pipeline = "none" THEN None ELSE Some("web_url"),
                          commit |-> IF net.commit.kind = "some"
                                     THEN Some([id |-> net.commit.id])
                                     ELSE None])]

\* A plausible slip: a raising commit call taken for "no commit"
ProjectChainBody_CommitCaught(i, net) ==
    IF net.lookup = "throw" THEN [threw |-> TRUE, value |-> None]
    ELSE IF net.lookup = "notok" THEN [threw |-> FALSE, value |-> None]
    ELSE IF net.pipeline = "throw" THEN [threw |-> TRUE, value |-> None]
    ELSE [threw |-> FALSE,
          value |-> Some([path |-> PROJECTS_TO_TRACK[i].path,
                          status |-> IF net.pipeline = "none" THEN "no-pipelines" ELSE net.pipeline,
                          pipelineUrl |-> IF net.pipeline = "none" THEN None ELSE Some("web_url"),
                          commit |-> IF net.commit.kind = "some"
                                     THEN Some([id |-> net.commit.id])
                                     ELSE None])]

\* The body of the per-project async callback, without its try/catch:
\* threw = the promise rejected, value = null or the ProjectInfo.
ProjectChainBody(i, net) ==
    IF net.lookup = "throw" THEN [threw |-> TRUE, value |-> None]
    ELSE IF net.lookup = "notok" THEN [threw |-> FALSE, value |-> None]
    ELSE IF net.pipeline = "throw" THEN [threw |-> TRUE, value |-> None]
    ELSE IF net.commit.kind = "throw" THEN [threw |-> TRUE, value |-> None]
    ELSE [threw |-> FALSE,
          value |-> Some([path |-> PROJECTS_TO_TRACK[i].path,
                          status |-> IF net.pipeline = "none" THEN "no-pipelines" ELSE net.pipeline,
                          pipelineUrl |-> IF net.pipeline = "none" THEN None ELSE Some("web_url"),
                          commit |-> IF net.commit.kind = "some"
                                     THEN Some([id |-> net.commit.id])
                                     ELSE None])]

\* A plausible slip: the callback without its catch, so a rejected chain is
\* seen by the join.
ProjectChain_NoCatch(i, net) == ProjectChainBody(i, net)

\* The per-project async callback: catch (error) { return null }
ProjectChain(i, net) ==
    [threw |-> FALSE, value |-> ProjectChainBody(i, net).value]

\* Promise.all(projectPromises), then results.filter(p => p !== null).
\* Promise.all rejects as soon as one of its promises rejects.
JoinProjects(chains) ==
    IF \E i \in 1..Len(chains) : chains[i].threw
    THEN [threw |-> TRUE, value |-> <<>>]
    ELSE [threw |-> FALSE,
          value |-> Flatten(ArrayOf([i \in 1..Len(chains) |-> chains[i].value], Len(chains)))]

\* PROJECTS_TO_TRACK.map(async ...) and the join
FetchGitLabData(nets) ==
    JoinProjects(ArrayOf([i \in ProjIdx |-> ProjectChain(i, nets[i])], Len(PROJECTS_TO_TRACK)))

\* gitlab.find(g => g.path == path): the first element with that path, or undefined
FindProject(gitlab, path) ==
    LET hits == {k \in 1..Len(gitlab) : gitlab[k].path = path}
    IN IF hits = {} THEN None
       ELSE Some(gitlab[CHOOSE k \in hits : \A m \in hits : k <= m])

(***************************************************************************)
(* The static artifact host                                                *)
(*                                                                         *)
(* A directory listing is the sequence of its folder rows in document      *)
(* order.  A row has the entry name (the href) and the text of its         *)
(* right-aligned cell: shape says whether that text has the form           *)
(* [\d\-]{10} [\d:]{5} the pattern asks for, valid whether new Date(text)  *)
(* is a valid date, ms its getTime().  Rows are on lines of their own and  *)
(* . does not match a line end, so the pattern matches exactly the rows    *)
(* with shape.                                                             *)
(***************************************************************************)
Row(name, shape, valid, ms) == [name |-> name, shape |-> shape, valid |-> valid, ms |-> ms]

\* regex.exec(html): the first matching row at or after regex.lastIndex
\* (counted in rows); lastIndex moves behind the match, or back to 0 when
\* nothing matches.
RegexExec(html, lastIndex) ==
    LET hits == {k \in (lastIndex + 1)..Len(html) : html[k].shape}
    IN IF hits = {} THEN [match |-> None, lastIndex |-> 0]
       ELSE LET k == CHOOSE h \in hits : \A m \in hits : h <= m
            IN [match |-> Some(html[k]), lastIndex |-> k]

\* A plausible slip: break instead of continue on a row of another platform
ScanIndex_StopAtOther(html, arch, lastIndex) ==
    LET r == RegexExec(html, lastIndex)
    IN IF ~IsSome(r.match) THEN [row |-> None, lastIndex |-> r.lastIndex]
       ELSE IF ~StartsWith(Get(r.match).name, arch) THEN [row |-> None, lastIndex |-> r.lastIndex]
       ELSE [row |-> r.match, lastIndex |-> r.lastIndex]

RECURSIVE ScanIndex(_, _, _)
\* while ((match = regex.exec(html)) !== null) { if (!name.startsWith(arch)) continue; ...; break }
ScanIndex(html, arch, lastIndex) ==
    LET r == RegexExec(html, lastIndex)
    IN IF ~IsSome(r.match) THEN [row |-> None, lastIndex |-> r.lastIndex]
       ELSE IF ~StartsWith(Get(r.match).name, arch) THEN ScanIndex(html, arch, r.lastIndex)
       ELSE [row |-> r.match, lastIndex |-> r.lastIndex]

\* A plausible slip: stale from the threshold on
IsStale_Inclusive(now, t) == (now - t) >= ARTIFACT_STALE_HOURS * MS_PER_HOUR

\* hoursDiff > ARTIFACT_STALE_HOURS, with hoursDiff = (Date.now() - t) / (1000 * 60 * 60)
IsStale(now, t) == (now - t) > ARTIFACT_STALE_HOURS * MS_PER_HOUR

\* The three fields the scan sets from the matched row.  toISOString() of an
\* invalid date raises a RangeError.
IndexEntry(row, now) ==
    IF ~row.valid THEN [threw |-> TRUE, value |-> None]
    ELSE [threw |-> FALSE,
          value |-> Some([url |-> row.name, lastModified |-> row.ms,
                          isStale |-> IsStale(now, row.ms)])]

\* corePkgs: PROJECTS_TO_TRACK.flatMap(x => x.pkg.map(y => ({..., project: gitlab.find(...)})))
CorePkgs(gitlab) ==
    Flatten(ArrayOf([i \in ProjIdx |->
        ArrayOf([j \in 1..Len(PROJECTS_TO_TRACK[i].pkg) |->
            [name |-> PROJECTS_TO_TRACK[i].pkg[j],
             path |-> PROJECTS_TO_TRACK[i].path,
             branch |-> PROJECTS_TO_TRACK[i].branch,
             project |-> FindProject(gitlab, PROJECTS_TO_TRACK[i].path)]],
          Len(PROJECTS_TO_TRACK[i].pkg))], Len(PROJECTS_TO_TRACK)))

\* every package name of the configuration
PkgNames ==
    UNION {{PROJECTS_TO_TRACK[i].pkg[j] : j \in 1..Len(PROJECTS_TO_TRACK[i].pkg)} : i \in ProjIdx}

\* The per-package async callback: try { download; TOML.parse } catch { }
\* ans.kind: "fail" (download raises), "badtoml" (TOML.parse raises), "ok"
PackageEntry(pkg, ans) ==
    [name |-> pkg.name,
     branch |-> pkg.branch,
     project |-> pkg.project,
     toml |-> IF ans.kind = "ok" THEN Some(ans.toml) ELSE None]

\* A plausible slip: no try/catch around the package download, so that one
\* failing package rejects the join and with it the platform.
PackagesOf_NoCatch(corePkgs, answers) ==
    IF \E k \in 1..Len(corePkgs) : answers[corePkgs[k].name].kind # "ok"
    THEN [threw |-> TRUE, value |-> <<>>]
    ELSE [threw |-> FALSE,
          value |-> ArrayOf([k \in 1..Len(corePkgs) |->
                        PackageEntry(corePkgs[k], answers[corePkgs[k].name])], Len(corePkgs))]

\* arti.packages = await Promise.all(corePkgs.map(async (pkg) => ...))
PackagesOf(corePkgs, answers) ==
    [threw |-> FALSE,
     value |-> ArrayOf([k \in 1..Len(corePkgs) |->
                   PackageEntry(corePkgs[k], answers[corePkgs[k].name])], Len(corePkgs))]

\* A plausible slip: the second map read from the first key
RepositoryOf_SameKey(ans) ==
    IF ans.kind # "ok" THEN [threw |-> TRUE, value |-> None]
    ELSE [threw |-> FALSE,
          value |-> Some([packages |-> IF IsSome(ans.packages) THEN Get(ans.packages) ELSE {},
                          outdated_packages |-> IF IsSome(ans.packages)
                                                THEN Get(ans.packages) ELSE {}])]

\* repo.toml: download, TOML.parse, then both maps defaulted with || {}
\* ans.kind: "fail" | "badtoml" | "ok", with the parsed maps (absent or a map)
RepositoryOf(ans) ==
    IF ans.kind # "ok" THEN [threw |-> TRUE, value |-> None]
    ELSE [threw |-> FALSE,
          value |-> Some([packages |-> IF IsSome(ans.packages) THEN Get(ans.packages) ELSE {},
                          outdated_packages |-> IF IsSome(ans.outdated_packages)
                                                THEN Get(ans.outdated_packages) ELSE {}])]

\* A plausible slip: the pattern's position not set back between the loops
ImgScanStart_NoReset(pkgScan) == pkgScan.lastIndex

\* const regex = /.../g inside the platform callback: each callback has a
\* pattern object of its own, whose lastIndex starts at 0 whatever the
\* pattern of the callback before it was left with
PkgScanStart(prevScan) == 0

\* regex.lastIndex = 0 between the two loops: where the image scan starts,
\* given what the package scan left in the pattern
ImgScanStart(pkgScan) == 0

\* What the scan leaves in arti for one listing: nothing when no row
\* matched, else the entry of the matched row.
ScanEntry(html, arch, now) ==
    IF IsSome(ScanIndex(html, arch, 0).row)
    THEN IndexEntry(Get(ScanIndex(html, arch, 0).row), now)
    ELSE [threw |-> FALSE, value |-> None]

\* The rest of the per-platform callback, given the two scans' entries e1
\* (packages) and e2 (images), the repo.toml result and the package join:
\* if (arti.pkgUrl) { repository; packages }  return arti
ArchResult(arch, e1, e2, repo, pkgs) ==
    IF e1.threw \/ e2.threw
    THEN [threw |-> TRUE, value |-> None]
    ELSE IF ~IsSome(e1.value)
    THEN [threw |-> FALSE,
          value |-> Some([name |-> arch, pkg |-> e1.value, img |-> e2.value,
                          repository |-> None, packages |-> None])]
    ELSE IF repo.threw \/ pkgs.threw
    THEN [threw |-> TRUE, value |-> None]
    ELSE [threw |-> FALSE,
          value |-> Some([name |-> arch, pkg |-> e1.value, img |-> e2.value,
                          repository |-> repo.value, packages |-> Some(pkgs.value)])]

\* The per-platform async callback of fetchArtifactStatus (its promise
\* rejects when threw): two scans with a fresh pattern, lastIndex set back
\* to 0 between them, then repo.toml and the package descriptors when a
\* package index row was found.
ArchBody(a, htmlPkg, htmlImg, corePkgs, aenv, now) ==
    ArchResult(ARTIFACTS_TO_TRACK[a],
               ScanEntry(htmlPkg, ARTIFACTS_TO_TRACK[a], now),
               ScanEntry(htmlImg, ARTIFACTS_TO_TRACK[a], now),
               RepositoryOf(aenv.repoToml[a]),
               PackagesOf(corePkgs, aenv.pkgToml[a]))

\* Promise.all(archPromises), then results.filter(p => p !== null)
JoinArchs(archs) ==
    IF \E a \in 1..Len(archs) : archs[a].threw
    THEN [threw |-> TRUE, value |-> <<>>]
    ELSE [threw |-> FALSE,
          value |-> Flatten(ArrayOf([a \in 1..Len(archs) |-> archs[a].value], Len(archs)))]

\* ARTIFACTS_TO_TRACK.map(async (arch) => ...) with corePkgs computed once
ArchPromises(htmlPkg, htmlImg, corePkgs, aenv, now) ==
    ArrayOf([a \in ArchIdx |-> ArchBody(a, htmlPkg, htmlImg, corePkgs, aenv, now)],
            Len(ARTIFACTS_TO_TRACK))

\* The try block of fetchArtifactStatus: the two listings, corePkgs, the
\* per-platform promises and their Promise.all.
FetchArtifactStatusBody(gitlab, aenv, now) ==
    IF ~IsSome(aenv.pkgHtml) \/ ~IsSome(aenv.imgHtml)
    THEN [threw |-> TRUE, value |-> <<>>]
    ELSE JoinArchs(ArchPromises(Get(aenv.pkgHtml), Get(aenv.imgHtml), CorePkgs(gitlab), aenv, now))

\* A plausible slip: the catch handing the error on to the caller
CatchEmpty_Rethrow(r) == r

\* catch (error) { return [] }
CatchEmpty(r) == [threw |-> FALSE, value |-> IF r.threw THEN <<>> ELSE r.value]

\* fetchArtifactStatus
FetchArtifactStatus(gitlab, aenv, now) == CatchEmpty(FetchArtifactStatusBody(gitlab, aenv, now))

(***************************************************************************)
(* generateHtml: the classification of a package entry                     *)
(***************************************************************************)
Placeholder == <<"-">>

\* A plausible slip: the whole hash compared, not its first characters
ShortHash_Whole(s) == IF s = <<>> THEN Placeholder ELSE s

\* s.substring(0, 7) || '-'
ShortHash(s) == IF Substring0(s, SHORT_HASH_LEN) = <<>> THEN Placeholder
                ELSE Substring0(s, SHORT_HASH_LEN)

\* A plausible slip: reading the other hash of the descriptor
PkgCommit_Built(toml) ==
    IF IsSome(toml) THEN ShortHash(Get(toml).commit_identifier) ELSE Placeholder

\* x.toml?.source_identifier.substring(0, 7) || '-'
PkgCommit(toml) == IF IsSome(toml) THEN ShortHash(Get(toml).source_identifier) ELSE Placeholder

\* x.project.commit?.id.substring(0, 7) || '-'
RpoCommit(commit) == IF IsSome(commit) THEN ShortHash(Get(commit).id) ELSE Placeholder

\* A plausible slip: the window closed at the threshold instead of open
IsRecent_Inclusive(toml, now) ==
    /\ IsSome(toml)
    /\ Get(toml).time_identifier.text = "date"
    /\ (now - Get(toml).time_identifier.ms) <= MS_PER_HOUR * ARTIFACT_STALE_HOURS

\* x.toml?.time_identifier && (Date.now() - new Date(time_identifier).getTime()) < 1000*60*60*ARTIFACT_STALE_HOURS
\* time_identifier.text: "empty" (falsy), "invalid" (getTime() is NaN), "date"
IsRecent(toml, now) ==
    /\ IsSome(toml)
    /\ Get(toml).time_identifier.text = "date"
    /\ (now - Get(toml).time_identifier.ms) < MS_PER_HOUR * ARTIFACT_STALE_HOURS

\* A plausible slip: the age test put before the hash comparison
Classify_AgeFirst(toml, commit, now) ==
    IF IsRecent(toml, now) THEN "pending"
    ELSE IF PkgCommit(toml) = RpoCommit(commit) THEN "latest"
    ELSE "outdated"

\* the class of the package's item: 'latest' (synced), 'pending' or 'outdated'
Classify(toml, commit, now) ==
    IF PkgCommit(toml) = RpoCommit(commit) THEN "latest"
    ELSE IF IsRecent(toml, now) THEN "pending"
    ELSE "outdated"

\* artifact.packages.map(x => ...): the items of one platform
ItemsOf(packages, now) ==
    ArrayOf([m \in 1..Len(packages) |->
                [name |-> packages[m].name,
                 class |-> Classify(packages[m].toml, Get(packages[m].project).commit, now)]],
            Len(packages))

\* artifactData.map(artifact => artifact.packages.map(x => ...)): reading
\* .map of an undefined packages or .commit of an undefined project raises
\* a TypeError.
GenerateHtml(gitlab, artifact, now) ==
    IF \E k \in 1..Len(artifact) :
           \/ ~IsSome(artifact[k].packages)
           \/ \E m \in 1..Len(Get(artifact[k].packages)) :
                  ~IsSome(Get(artifact[k].packages)[m].project)
    THEN [threw |-> TRUE, value |-> <<>>]
    ELSE [threw |-> FALSE,
          value |-> ArrayOf([k \in 1..Len(artifact) |->
                        [name |-> artifact[k].name,
                         items |-> ItemsOf(Get(artifact[k].packages), now)]],
                      Len(artifact))]

(***************************************************************************)
(* Network calls issued (fetch invocations), for the call counts           *)
(***************************************************************************)
RECURSIVE SumTo(_, _)
SumTo(f, n) == IF n = 0 THEN 0 ELSE f[n] + SumTo(f, n - 1)

\* fetch calls of one project's chain: lookup, then pipeline, then commit
ProjectCalls(net) ==
    IF net.lookup # "ok" THEN 1 ELSE IF net.pipeline = "throw" THEN 2 ELSE 3

GitlabCalls(nets) ==
    SumTo(ArrayOf([i \in ProjIdx |-> ProjectCalls(nets[i])], Len(PROJECTS_TO_TRACK)),
          Len(PROJECTS_TO_TRACK))

\* download calls of one platform: repo.toml, then one per package
ArchCallsOf(e1, e2, repoKind, nPkgs) ==
    IF e1.threw \/ e2.threw \/ ~IsSome(e1.value) THEN 0
    ELSE IF repoKind # "ok" THEN 1
    ELSE 1 + nPkgs

ArchCalls(a, gitlab, aenv, now) ==
    ArchCallsOf(ScanEntry(Get(aenv.pkgHtml), ARTIFACTS_TO_TRACK[a], now),
                ScanEntry(Get(aenv.imgHtml), ARTIFACTS_TO_TRACK[a], now),
                aenv.repoToml[a].kind, Len(CorePkgs(gitlab)))

ArtifactCalls(gitlab, aenv, now) ==
    IF ~IsSome(aenv.pkgHtml) THEN 1
    ELSE IF ~IsSome(aenv.imgHtml) THEN 2
    ELSE 2 + SumTo(ArrayOf([a \in ArchIdx |-> ArchCalls(a, gitlab, aenv, now)],
                           Len(ARTIFACTS_TO_TRACK)), Len(ARTIFACTS_TO_TRACK))

(***************************************************************************)
(* Bounds, and the answers the network gives to one refresh cycle          *)
(***************************************************************************)
MaxReq == 2
MaxTicks == 2
StartHours == 100

ReqIds == 1..MaxReq
StartTime == StartHours * MS_PER_HOUR
\* The instants at which something happens: StartTime, then alternately
\* CACHE_DURATION_MS - 1 and 1 millisecond later.
TickStep(n) == IF n % 2 = 0 THEN CACHE_DURATION_MS - 1 ELSE 1

NameX86 == <<"x", "8", "6", "/">>
NameAarch == <<"a", "a", "r", "c", "h", "/">>
NameOther == <<"i", "6", "8", "6", "/">>

Toml(src, built, text, ms) ==
    [source_identifier |-> src, commit_identifier |-> built,
     time_identifier |-> [text |-> text, ms |-> ms]]

OkToml(src, built, ms) == [kind |-> "ok", toml |-> Toml(src, built, "date", ms)]
NoToml(kind) == [kind |-> kind, toml |-> Toml(HEmpty, HEmpty, "empty", 0)]

RepoOut(kind, packages, outdated) ==
    [kind |-> kind, packages |-> packages, outdated_packages |-> outdated]

\* GitLab answers of a cycle: every project fine at commit h, every lookup
\* failing, or one project's lookup refused.
NetsAllOk(h) ==
    [i \in ProjIdx |-> [lookup |-> "ok", pipeline |-> "success",
                        commit |-> [kind |-> "some", id |-> h]]]
NetsAllDown ==
    [i \in ProjIdx |-> [lookup |-> "throw", pipeline |-> "throw",
                        commit |-> [kind |-> "throw", id |-> HEmpty]]]
NetsOneRefused(h) == [NetsAllOk(h) EXCEPT ![2].lookup = "notok"]

CycleNets == {NetsAllOk(H1), NetsAllDown, NetsOneRefused(H2)}

\* Artifact host answers of a cycle
ListingBoth == << Row(NameOther, TRUE, TRUE, StartTime - MS_PER_HOUR),
                  Row(NameX86, TRUE, TRUE, StartTime - MS_PER_HOUR),
                  Row(NameAarch, TRUE, TRUE, StartTime - 30 * MS_PER_HOUR) >>
ListingX86 == << Row(NameX86, TRUE, TRUE, StartTime - MS_PER_HOUR) >>

AenvAllOk ==
    [pkgHtml |-> Some(ListingBoth), imgHtml |-> Some(ListingBoth),
     repoToml |-> [a \in ArchIdx |-> RepoOut("ok", Some({"relibc"}), None)],
     pkgToml |-> [a \in ArchIdx |-> [n \in PkgNames |-> OkToml(H1, H2, StartTime - MS_PER_HOUR)]]]
AenvHostDown ==
    [AenvAllOk EXCEPT !.pkgHtml = None, !.imgHtml = None]
AenvRepoTomlFails == [AenvAllOk EXCEPT !.repoToml[2] = RepoOut("fail", None, None)]
AenvPkgTomlFails == [AenvAllOk EXCEPT !.pkgToml[1]["relibc"] = NoToml("fail")]
AenvRowMissing == [AenvAllOk EXCEPT !.pkgHtml = Some(ListingX86)]

CycleAenvs == {AenvAllOk, AenvHostDown, AenvRowMissing}

(***************************************************************************)
(* The request handler (serve.fetch) and the in-memory cache               *)
(***************************************************************************)
NoResp == [kind |-> "none", gitlab |-> None, artifact |-> None, time |-> 0, page |-> <<>>]

IdleReq == [pc |-> "idle", now |-> 0, gitlabData |-> <<>>, calls |-> 0, cycles |-> 0,
            allFailed |-> FALSE]

\* the cache as one value: the two data variables and the timestamp
Cache == [gitlab |-> cachedGitlabData, artifact |-> cachedArtifactData, time |-> lastCacheTime]

NoOut == [ev |-> "none", r |-> 0, cycles |-> 0, now |-> 0, calls |-> 0, allFailed |-> FALSE,
          before |-> [gitlab |-> None, artifact |-> None, time |-> 0], resp |-> NoResp]

NoFx == [op |-> "none"]

\* the server after start-up: nothing cached, no request yet
ServerInit ==
    /\ clock = StartTime
    /\ ticks = 0
    /\ cachedGitlabData = None
    /\ cachedArtifactData = None
    /\ lastCacheTime = 0
    /\ req = [r \in ReqIds |-> IdleReq]
    /\ out = NoOut
    /\ lastCycleAllFailed = FALSE

server == <<clock, ticks, cachedGitlabData, cachedArtifactData, lastCacheTime, req, out,
            lastCycleAllFailed>>

Init == ServerInit /\ fx = NoFx

\* A plausible slip: the age test left out of the cache check
CacheValid_NoAge(now) ==
    /\ IsSome(cachedGitlabData)
    /\ IsSome(cachedArtifactData)

\* A plausible slip: taking an empty array for "no data", as a null would be
CacheValid_EmptyIsMiss(now) ==
    /\ IsSome(cachedGitlabData) /\ Get(cachedGitlabData) # <<>>
    /\ IsSome(cachedArtifactData) /\ Get(cachedArtifactData) # <<>>
    /\ now - lastCacheTime < CACHE_DURATION_MS

\* A plausible slip: <= for <, so that a snapshot exactly TTL old still counts
CacheValid_Inclusive(now) ==
    /\ IsSome(cachedGitlabData)
    /\ IsSome(cachedArtifactData)
    /\ now - lastCacheTime <= CACHE_DURATION_MS

\* cachedGitlabData && cachedArtifactData && (now - lastCacheTime < CACHE_DURATION_MS)
\* (an array, even an empty one, is truthy)
CacheValid(now) ==
    /\ IsSome(cachedGitlabData)
    /\ IsSome(cachedArtifactData)
    /\ now - lastCacheTime < CACHE_DURATION_MS

\* The response built from the given cache contents: generateHtml runs
\* outside the handler's try, so what it raises is the request's failure.
PageResp(page, gitlab, artifact, time) ==
    [kind |-> IF page.threw THEN "crash" ELSE "html",
     gitlab |-> gitlab, artifact |-> artifact, time |-> time, page |-> page.value]

Respond(gitlab, artifact, time, now) ==
    PageResp(GenerateHtml(Get(gitlab), Get(artifact), now), gitlab, artifact, time)

\* the handler's catch: a Response with status 500
ErrorResp == [NoResp EXCEPT !.kind = "error500"]

\* The clock advances.
Tick ==
    /\ ticks < MaxTicks
    /\ clock' = clock + TickStep(ticks)
    /\ ticks' = ticks + 1
    /\ out' = NoOut
    /\ UNCHANGED <<cachedGitlabData, cachedArtifactData, lastCacheTime, req,
                   lastCycleAllFailed, fx>>

\* A plausible slip (or a repair): a miss that finds a refresh in flight
\* waits for it and starts none of its own
Arrive_SingleFlight(r) ==
    /\ req[r].pc = "idle"
    /\ \A q \in ReqIds : q < r => req[q].pc # "idle"
    /\ IF CacheValid(clock)
       THEN /\ req' = [req EXCEPT ![r] = [@ EXCEPT !.pc = "done", !.now = clock]]
            /\ out' = [NoOut EXCEPT !.ev = "hit", !.r = r, !.now = clock, !.before = Cache,
                           !.resp = Respond(cachedGitlabData, cachedArtifactData,
                                            lastCacheTime, clock)]
       ELSE IF \E q \in ReqIds : req[q].pc \in {"gitlab", "artifact"}
       THEN /\ req' = [req EXCEPT ![r] = [@ EXCEPT !.pc = "done", !.now = clock]]
            /\ out' = [NoOut EXCEPT !.ev = "joined", !.r = r, !.now = clock, !.before = Cache]
       ELSE /\ req' = [req EXCEPT ![r] = [@ EXCEPT !.pc = "gitlab", !.now = clock,
                                                       !.cycles = @ + 1]]
            /\ out' = [NoOut EXCEPT !.ev = "miss", !.r = r, !.now = clock, !.before = Cache,
                           !.cycles = 1]
    /\ UNCHANGED <<clock, ticks, cachedGitlabData, cachedArtifactData, lastCacheTime,
                   lastCycleAllFailed, fx>>

\* A request for "/" arrives: now = Date.now(), then the cache check.  A hit
\* is answered in the same turn; a miss starts fetchGitLabData.
Arrive(r) ==
    /\ req[r].pc = "idle"
    /\ \A q \in ReqIds : q < r => req[q].pc # "idle"
    /\ IF CacheValid(clock)
       THEN /\ req' = [req EXCEPT ![r] = [@ EXCEPT !.pc = "done", !.now = clock]]
            /\ out' = [NoOut EXCEPT !.ev = "hit", !.r = r, !.now = clock, !.before = Cache,
                           !.resp = Respond(cachedGitlabData, cachedArtifactData,
                                            lastCacheTime, clock)]
       ELSE /\ req' = [req EXCEPT ![r] = [@ EXCEPT !.pc = "gitlab", !.now = clock,
                                                       !.cycles = @ + 1]]
            /\ out' = [NoOut EXCEPT !.ev = "miss", !.r = r, !.now = clock, !.before = Cache,
                           !.cycles = 1]
    /\ UNCHANGED <<clock, ticks, cachedGitlabData, cachedArtifactData, lastCacheTime,
                   lastCycleAllFailed, fx>>

\* The handler after await fetchGitLabData() has settled with g
AfterGitlab(r, g, calls, allFailed) ==
    IF g.threw
    THEN /\ req' = [req EXCEPT ![r] = [IdleReq EXCEPT !.pc = "done"]]
         /\ out' = [NoOut EXCEPT !.ev = "error", !.r = r, !.now = req[r].now,
                        !.cycles = req[r].cycles,
                        !.before = Cache, !.calls = calls, !.resp = ErrorResp]
         /\ lastCycleAllFailed' = allFailed
    ELSE /\ req' = [req EXCEPT ![r] = [@ EXCEPT !.pc = "artifact", !.gitlabData = g.value,
                        !.calls = calls, !.allFailed = allFailed]]
         /\ out' = [NoOut EXCEPT !.ev = "gitlab", !.r = r, !.now = req[r].now,
                        !.cycles = req[r].cycles, !.before = Cache]
         /\ UNCHANGED lastCycleAllFailed

\* await fetchGitLabData() settles, the GitLab API having answered nets.
GitlabDone(r, nets) ==
    /\ req[r].pc = "gitlab"
    /\ AfterGitlab(r, FetchGitLabData(nets), GitlabCalls(nets),
                   \A i \in ProjIdx : nets[i].lookup # "ok")
    /\ UNCHANGED <<clock, ticks, cachedGitlabData, cachedArtifactData, lastCacheTime, fx>>

\* A plausible slip: the artifact data left out of the cache assignments
AfterArtifact_NoArtifactWrite(r, a, calls, allFailed) ==
    /\ cachedGitlabData' = Some(req[r].gitlabData)
    /\ lastCacheTime' = req[r].now
    /\ out' = [NoOut EXCEPT !.ev = "publish", !.r = r, !.now = req[r].now, !.before = Cache]
    /\ UNCHANGED cachedArtifactData

\* The handler after await fetchArtifactStatus(gitlabData) has settled with
\* a: the three cache variables are assigned and the page is generated from
\* them in the same turn; what the fetch raised goes to the catch.
AfterArtifact(r, a, calls, allFailed) ==
    IF a.threw
    THEN /\ out' = [NoOut EXCEPT !.ev = "error", !.r = r, !.now = req[r].now,
                        !.cycles = req[r].cycles,
                        !.before = Cache, !.calls = calls, !.resp = ErrorResp]
         /\ UNCHANGED <<cachedGitlabData, cachedArtifactData, lastCacheTime>>
    ELSE /\ cachedGitlabData' = Some(req[r].gitlabData)
         /\ cachedArtifactData' = Some(a.value)
         /\ lastCacheTime' = req[r].now
         /\ out' = [NoOut EXCEPT !.ev = "publish", !.r = r, !.now = req[r].now,
                        !.cycles = req[r].cycles, !.before = Cache, !.calls = calls, !.allFailed = allFailed,
                        !.resp = Respond(Some(req[r].gitlabData), Some(a.value),
                                         req[r].now, clock)]

\* A plausible slip: the two fetches started side by side, so that the
\* artifact fetch runs on an empty project list before the GitLab one joined
ArtifactDone_Parallel(r, aenv) ==
    /\ req[r].pc \in {"gitlab", "artifact"}
    /\ AfterArtifact(r, FetchArtifactStatus(req[r].gitlabData, aenv, clock),
                     req[r].calls + ArtifactCalls(req[r].gitlabData, aenv, clock),
                     req[r].allFailed /\ ~IsSome(aenv.pkgHtml))
    /\ lastCycleAllFailed' = (req[r].allFailed /\ ~IsSome(aenv.pkgHtml))
    /\ req' = [req EXCEPT ![r] = [IdleReq EXCEPT !.pc = "done"]]
    /\ UNCHANGED <<clock, ticks, fx>>

\* await fetchArtifactStatus(gitlabData) settles, the artifact host having
\* answered aenv.
ArtifactDone(r, aenv) ==
    /\ req[r].pc = "artifact"
    /\ AfterArtifact(r, FetchArtifactStatus(req[r].gitlabData, aenv, clock),
                     req[r].calls + ArtifactCalls(req[r].gitlabData, aenv, clock),
                     req[r].allFailed /\ ~IsSome(aenv.pkgHtml))
    /\ lastCycleAllFailed' = (req[r].allFailed /\ ~IsSome(aenv.pkgHtml))
    /\ req' = [req EXCEPT ![r] = [IdleReq EXCEPT !.pc = "done"]]
    /\ UNCHANGED <<clock, ticks, fx>>

Next ==
    \/ Tick
    \/ \E r \in ReqIds : Arrive(r)
    \/ \E r \in ReqIds, nets \in CycleNets : GitlabDone(r, nets)
    \/ \E r \in ReqIds, aenv \in CycleAenvs : ArtifactDone(r, aenv)

Spec == Init /\ [][Next]_vars

(***************************************************************************)
(* SpecGitlab: one call of fetchGitLabData, for every combination of       *)
(* answers of the GitLab API to the tracked projects' calls                *)
(***************************************************************************)
InitGitlab ==
    /\ ServerInit
    /\ fx \in {[op |-> "gitlab", phase |-> "input", nets |-> n, threw |-> FALSE, result |-> <<>>] :
                 n \in [ProjIdx -> ProjNets]}

\* the call, its promise settled: resolved with result, or rejected (threw)
RunFetchGitLabData ==
    /\ fx.op = "gitlab" /\ fx.phase = "input"
    /\ fx' = [fx EXCEPT !.phase = "done",
                        !.threw = FetchGitLabData(fx.nets).threw,
                        !.result = FetchGitLabData(fx.nets).value]
    /\ UNCHANGED server

NextGitlab == RunFetchGitLabData

SpecGitlab == InitGitlab /\ [][NextGitlab]_vars

(***************************************************************************)
(* SpecArtifact: one call of fetchArtifactStatus, for the project lists    *)
(* fetchGitLabData can hand over and the answers of the artifact host      *)
(***************************************************************************)
GitlabInputs == {FetchGitLabData(NetsAllOk(H1)).value, FetchGitLabData(NetsOneRefused(H2)).value}

RepoOuts == {RepoOut("fail", None, None), RepoOut("badtoml", None, None),
             RepoOut("ok", Some({"relibc"}), Some({"base"})), RepoOut("ok", None, None),
             RepoOut("ok", Some({"relibc"}), None), RepoOut("ok", None, Some({}))}

PkgOuts == {NoToml("fail"), NoToml("badtoml"), OkToml(H1, H2, StartTime - MS_PER_HOUR)}

\* both listings fine: every combination of package descriptor answers with
\* each repo.toml parsed or failing, and every combination of repo.toml
\* answers with the package descriptors fine
AenvsDescriptors ==
    {[pkgHtml |-> Some(ListingBoth), imgHtml |-> Some(ListingBoth), repoToml |-> rt, pkgToml |-> pt] :
        rt \in [ArchIdx -> {RepoOut("fail", None, None),
                            RepoOut("ok", Some({"relibc"}), Some({"base"}))}],
        pt \in [ArchIdx -> [PkgNames -> PkgOuts]]}
      \cup {[AenvAllOk EXCEPT !.repoToml = rt] : rt \in [ArchIdx -> RepoOuts]}

\* the listings failing or lacking rows, the descriptors fine or one repo.toml failing
AenvsListings ==
    {[e EXCEPT !.pkgHtml = ph, !.imgHtml = ih] :
        e \in {AenvAllOk, AenvRepoTomlFails},
        ph \in {None, Some(ListingBoth), Some(ListingX86), Some(<<>>)},
        ih \in {None, Some(ListingBoth), Some(ListingX86)}}

InitArtifact ==
    /\ ServerInit
    /\ fx \in {[op |-> "artifact", phase |-> "input", gitlab |-> g, aenv |-> e, now |-> StartTime,
                archs |-> <<>>, threw |-> FALSE, result |-> <<>>] :
                 g \in GitlabInputs, e \in AenvsDescriptors \cup AenvsListings}

\* the per-platform promises as they settle (none is made when a listing fails)
SettledArchs(gitlab, aenv, now) ==
    IF ~IsSome(aenv.pkgHtml) \/ ~IsSome(aenv.imgHtml) THEN <<>>
    ELSE ArchPromises(Get(aenv.pkgHtml), Get(aenv.imgHtml), CorePkgs(gitlab), aenv, now)

\* the call, its promise settled
RunFetchArtifactStatus ==
    /\ fx.op = "artifact" /\ fx.phase = "input"
    /\ fx' = [fx EXCEPT !.phase = "done",
                        !.archs = SettledArchs(fx.gitlab, fx.aenv, fx.now),
                        !.threw = FetchArtifactStatus(fx.gitlab, fx.aenv, fx.now).threw,
                        !.result = FetchArtifactStatus(fx.gitlab, fx.aenv, fx.now).value]
    /\ UNCHANGED server

NextArtifact == RunFetchArtifactStatus

SpecArtifact == InitArtifact /\ [][NextArtifact]_vars

(***************************************************************************)
(* SpecClassify: generateHtml on one platform with one package entry, for  *)
(* every descriptor and repository status of the sets below                *)
(***************************************************************************)
Hashes == {H1, H1x, H2, HShort, HDash, HEmpty}

\* time_identifier values: empty, not a date, and dates 1 h, just under
\* 24 h, exactly 24 h and 48 h before now
TimeIds(now) ==
    {[text |-> "empty", ms |-> 0], [text |-> "invalid", ms |-> 0]}
        \cup {[text |-> "date", ms |-> now - d] :
                 d \in {MS_PER_HOUR, ARTIFACT_STALE_HOURS * MS_PER_HOUR - 1,
                        ARTIFACT_STALE_HOURS * MS_PER_HOUR, 2 * ARTIFACT_STALE_HOURS * MS_PER_HOUR}}

TomlInputs(now) ==
    {None} \cup {Some([source_identifier |-> src, commit_identifier |-> built, time_identifier |-> t]) :
                    src \in Hashes, built \in {H1, H2, HEmpty}, t \in TimeIds(now)}

\* gitlab.find's result for the package's project: undefined, or a
\* ProjectInfo with or without a latest commit
ProjectInputs ==
    {None} \cup {Some([path |-> "redox-os/relibc", status |-> "success",
                       pipelineUrl |-> Some("web_url"), commit |-> c]) :
                    c \in {None} \cup {Some([id |-> h]) : h \in Hashes}}

\* the artifact list of one platform holding the one package entry
OnePackage(toml, project) ==
    << [name |-> ARTIFACTS_TO_TRACK[1],
        pkg |-> Some([url |-> NameX86, lastModified |-> 0, isStale |-> FALSE]),
        img |-> None,
        repository |-> Some([packages |-> {}, outdated_packages |-> {}]),
        packages |-> Some(<< [name |-> "relibc", branch |-> "master",
                              project |-> project, toml |-> toml] >>)] >>

InitClassify ==
    /\ ServerInit
    /\ fx \in {[op |-> "classify", phase |-> "input", toml |-> t, project |-> pr, now |-> StartTime,
                threw |-> FALSE, page |-> <<>>] :
                 t \in TomlInputs(StartTime), pr \in ProjectInputs}

\* generateHtml(gitlabData, artifactData) on that entry
RunGenerateHtml ==
    /\ fx.op = "classify" /\ fx.phase = "input"
    /\ fx' = [fx EXCEPT !.phase = "done",
                        !.threw = GenerateHtml(fx.project, OnePackage(fx.toml, fx.project), fx.now).threw,
                        !.page = GenerateHtml(fx.project, OnePackage(fx.toml, fx.project), fx.now).value]
    /\ UNCHANGED server

NextClassify == RunGenerateHtml

SpecClassify == InitClassify /\ [][NextClassify]_vars

(***************************************************************************)
(* SpecReread: one cached snapshot holding one package entry, rendered by  *)
(* up to MaxReads requests that are served from the cache at later and     *)
(* later times within the cache duration                                   *)
(***************************************************************************)
MaxReads == 2

\* how long after lastCacheTime a request arrives and still passes the cache check
ReadOffsets == {d \in {0, 1, CACHE_DURATION_MS - 1, CACHE_DURATION_MS} : d < CACHE_DURATION_MS}

InitReread ==
    /\ ServerInit
    /\ fx \in {[op |-> "reread", toml |-> t, project |-> pr, cachedAt |-> StartTime,
                reads |-> <<>>] :
                 t \in TomlInputs(StartTime), pr \in ProjectInputs}

\* the page generateHtml makes of the cached entry at time now, as one read
ReadOf(page, now) ==
    [at |-> now, threw |-> page.threw,
     class |-> IF page.threw THEN "none" ELSE page.value[1].items[1].class]

\* a request served from the cache d milliseconds after lastCacheTime
ReadCached(d) ==
    /\ fx.op = "reread"
    /\ Len(fx.reads) < MaxReads
    /\ fx.reads # <<>> => fx.reads[Len(fx.reads)].at <= fx.cachedAt + d
    /\ fx' = [fx EXCEPT !.reads = Append(@,
                  ReadOf(GenerateHtml(fx.project, OnePackage(fx.toml, fx.project), fx.cachedAt + d),
                         fx.cachedAt + d))]
    /\ UNCHANGED server

NextReread == \E d \in ReadOffsets : ReadCached(d)

SpecReread == InitReread /\ [][NextReread]_vars

(***************************************************************************)
(* SpecCycle: one refresh cycle with its three fan-outs taken apart: every *)
(* promise of PROJECTS_TO_TRACK.map, ARTIFACTS_TO_TRACK.map and            *)
(* corePkgs.map settles in a step of its own, in any order, and each       *)
(* Promise.all joins in a step of its own.  A log holds the settled        *)
(* promises of one Promise.all in the order in which they settled, each    *)
(* with its index in the array handed to Promise.all.                      *)
(***************************************************************************)
Settled(i, res) == [idx |-> i, res |-> res]

\* A plausible slip: the join resolving with the first promise that settles
AllSettled_First(log, n) == Len(log) >= 1

\* Promise.all resolves once each of its n promises has settled (fulfilled)
AllSettled(log, n) == Len(log) = n

\* Promise.all rejects as soon as one of its promises rejects
AnyRejected(log) == \E k \in 1..Len(log) : log[k].res.threw

\* the value at index i of the array Promise.all resolves with
SlotOf(log, i) ==
    IF \E k \in 1..Len(log) : log[k].idx = i
    THEN log[CHOOSE k \in 1..Len(log) : log[k].idx = i].res.value
    ELSE None

\* A plausible slip: the values collected in the order of completion
AllValues_ByCompletion(log, n) ==
    ArrayOf([k \in 1..Len(log) |-> log[k].res.value], Len(log))

\* the array Promise.all resolves with: each value at the index of its
\* promise (a value is None for null, Some(v) otherwise, so that Flatten of
\* the array is the array without its nulls)
AllValues(log, n) == ArrayOf([i \in 1..n |-> SlotOf(log, i)], n)

\* the indices of the promises in a log
SettledIdx(log) == {log[k].idx : k \in 1..Len(log)}

\* A plausible slip: the fetches still in flight dropped once the platform
\* join has settled
Cancelled_OnJoin(phase) == phase = "done"

\* download is fetch(url) with no abort signal and nothing holds on to the
\* promises after a join: no callback is ever cancelled
Cancelled(phase) == FALSE

\* the number of package names of the configuration
MaxPkgs == Cardinality(PkgNames)

\* which projects fail their lookup in a cycle: none, one, all
DropSets == {{}, {2}, ProjIdx}

\* GitLab answers of the cycle: the projects of D fail their lookup
NetsDropping(D) ==
    [i \in ProjIdx |-> IF i \in D THEN NetsAllDown[i] ELSE NetsAllOk(H1)[i]]

\* what the artifact host does for one platform: whether the package
\* listing has its row, whether repo.toml parses, which descriptors fail
ArchInputs ==
    {[row |-> FALSE, repo |-> "ok", failing |-> {}], [row |-> TRUE, repo |-> "fail", failing |-> {}]}
        \cup {[row |-> TRUE, repo |-> "ok", failing |-> f] : f \in {{}, {"relibc"}}}

\* the artifact host's answers made of one ArchInputs value per platform
AenvOf(inp) ==
    [pkgHtml |-> Some(<< Row(NameOther, TRUE, TRUE, StartTime - MS_PER_HOUR) >>
                        \o Flatten(ArrayOf([a \in ArchIdx |->
                               IF inp[a].row
                               THEN << Row(ARTIFACTS_TO_TRACK[a] \o <<"/">>, TRUE, TRUE,
                                           StartTime - MS_PER_HOUR) >>
                               ELSE <<>>], Len(ARTIFACTS_TO_TRACK)))),
     imgHtml |-> Some(ListingBoth),
     repoToml |-> [a \in ArchIdx |->
                      IF inp[a].repo = "ok" THEN RepoOut("ok", Some({"relibc"}), None)
                      ELSE RepoOut("fail", None, None)],
     pkgToml |-> [a \in ArchIdx |-> [n \in PkgNames |->
                     IF n \in inp[a].failing THEN NoToml("fail")
                     ELSE OkToml(H1, H2, StartTime - MS_PER_HOUR)]]]

\* what the two scans of each platform's callback leave in arti: they are
\* synchronous and read nothing but the two listings
ScansOf(aenv, now) ==
    [a \in ArchIdx |-> [e1 |-> ScanEntry(Get(aenv.pkgHtml), ARTIFACTS_TO_TRACK[a], now),
                        e2 |-> ScanEntry(Get(aenv.imgHtml), ARTIFACTS_TO_TRACK[a], now)]]

\* the state of a cycle about to start on the answers nets and aenv
CycleStart(nets, aenv, now) ==
    [op |-> "cycle", phase |-> "projects", nets |-> nets, aenv |-> aenv, now |-> now,
     scans |-> ScansOf(aenv, now), projLog |-> <<>>, gitlab |-> <<>>, corePkgs |-> <<>>,
     stage |-> [a \in ArchIdx |-> "idle"], pkgLog |-> [a \in ArchIdx |-> <<>>],
     archLog |-> <<>>, rejected |-> FALSE, result |-> <<>>]

InitCycle ==
    /\ ServerInit
    /\ fx \in {CycleStart(NetsDropping(D), AenvOf(inp), StartTime) :
                 D \in DropSets, inp \in [ArchIdx -> ArchInputs]}

\* one of the promises of PROJECTS_TO_TRACK.map settles
ProjectSettles(i) ==
    /\ fx.op = "cycle" /\ fx.phase = "projects"
    /\ i \notin SettledIdx(fx.projLog)
    /\ fx' = [fx EXCEPT !.projLog = Append(@, Settled(i, ProjectChain(i, fx.nets[i])))]
    /\ UNCHANGED server

\* what a platform's callback has done when it first yields: without a
\* package row it has returned, else it waits for repo.toml
StageAtStart(scan) ==
    IF scan.e1.threw \/ scan.e2.threw THEN "rejected"
    ELSE IF IsSome(scan.e1.value) THEN "repo"
    ELSE "settled"

\* the platform promises already settled when ARTIFACTS_TO_TRACK.map returns
ArchLogAtStart(scans) ==
    Flatten(ArrayOf([a \in ArchIdx |->
        IF StageAtStart(scans[a]) = "repo" THEN <<>>
        ELSE << Settled(a, ArchResult(ARTIFACTS_TO_TRACK[a], scans[a].e1, scans[a].e2,
                               [threw |-> FALSE, value |-> None],
                               [threw |-> FALSE, value |-> <<>>])) >>],
      Len(ARTIFACTS_TO_TRACK)))

\* Promise.all(projectPromises) resolves: fetchGitLabData returns the
\* filtered array, the handler goes on into fetchArtifactStatus, which
\* downloads the two listings and starts the platform callbacks
ProjectsJoined ==
    /\ fx.op = "cycle" /\ fx.phase = "projects"
    /\ AnyRejected(fx.projLog) \/ AllSettled(fx.projLog, Len(PROJECTS_TO_TRACK))
    /\ fx' = IF AnyRejected(fx.projLog)
             THEN [fx EXCEPT !.phase = "failed"]
             ELSE [fx EXCEPT !.phase = "archs",
                             !.gitlab = Flatten(AllValues(fx.projLog, Len(PROJECTS_TO_TRACK))),
                             !.corePkgs = CorePkgs(Flatten(AllValues(fx.projLog,
                                                                    Len(PROJECTS_TO_TRACK)))),
                             !.stage = [a \in ArchIdx |-> StageAtStart(fx.scans[a])],
                             !.archLog = ArchLogAtStart(fx.scans)]
    /\ UNCHANGED server

\* repo.toml of one platform is answered: the callback throws, or goes on
\* to start the package callbacks
RepoTomlSettles(a) ==
    /\ fx.op = "cycle" /\ fx.stage[a] = "repo"
    /\ ~Cancelled(fx.phase)
    /\ fx' = IF RepositoryOf(fx.aenv.repoToml[a]).threw
             THEN [fx EXCEPT !.stage[a] = "rejected",
                             !.archLog = Append(@, Settled(a, [threw |-> TRUE, value |-> None]))]
             ELSE [fx EXCEPT !.stage[a] = "pkgs"]
    /\ UNCHANGED server

\* one of the promises of corePkgs.map settles for one platform
PackageSettles(a, k) ==
    /\ fx.op = "cycle" /\ fx.stage[a] = "pkgs"
    /\ ~Cancelled(fx.phase)
    /\ k \in 1..Len(fx.corePkgs)
    /\ k \notin SettledIdx(fx.pkgLog[a])
    /\ fx' = [fx EXCEPT !.pkgLog[a] = Append(@, Settled(k,
                  [threw |-> FALSE,
                   value |-> Some(PackageEntry(fx.corePkgs[k],
                                               fx.aenv.pkgToml[a][fx.corePkgs[k].name]))]))]
    /\ UNCHANGED server

\* Promise.all over the package promises of one platform resolves and the
\* platform's callback returns arti
PackagesJoined(a) ==
    /\ fx.op = "cycle" /\ fx.stage[a] = "pkgs"
    /\ ~Cancelled(fx.phase)
    /\ AllSettled(fx.pkgLog[a], Len(fx.corePkgs))
    /\ fx' = [fx EXCEPT !.stage[a] = "settled",
                        !.archLog = Append(@, Settled(a, ArchResult(ARTIFACTS_TO_TRACK[a],
                              fx.scans[a].e1, fx.scans[a].e2,
                              RepositoryOf(fx.aenv.repoToml[a]),
                              [threw |-> FALSE,
                               value |-> Flatten(AllValues(fx.pkgLog[a], Len(fx.corePkgs)))])))]
    /\ UNCHANGED server

\* Promise.all(archPromises) rejects or resolves: fetchArtifactStatus
\* returns [] from its catch, or the filtered array
ArchsJoined ==
    /\ fx.op = "cycle" /\ fx.phase = "archs"
    /\ AnyRejected(fx.archLog) \/ AllSettled(fx.archLog, Len(ARTIFACTS_TO_TRACK))
    /\ fx' = [fx EXCEPT !.phase = "done",
                        !.rejected = AnyRejected(fx.archLog),
                        !.result = IF AnyRejected(fx.archLog) THEN <<>>
                                   ELSE Flatten(AllValues(fx.archLog, Len(ARTIFACTS_TO_TRACK)))]
    /\ UNCHANGED server

NextCycle ==
    \/ \E i \in ProjIdx : ProjectSettles(i)
    \/ ProjectsJoined
    \/ \E a \in ArchIdx : RepoTomlSettles(a)
    \/ \E a \in ArchIdx, k \in 1..MaxPkgs : PackageSettles(a, k)
    \/ \E a \in ArchIdx : PackagesJoined(a)
    \/ ArchsJoined

SpecCycle == InitCycle /\ [][NextCycle]_vars

\* SpecCycle with every call answered in the end (it resolves or fails) and
\* every continuation that is ready run in the end by the event loop
CycleFairness ==
    /\ \A i \in ProjIdx : WF_vars(ProjectSettles(i))
    /\ WF_vars(ProjectsJoined)
    /\ \A a \in ArchIdx : WF_vars(RepoTomlSettles(a))
    /\ \A a \in ArchIdx : \A k \in 1..MaxPkgs : WF_vars(PackageSettles(a, k))
    /\ \A a \in ArchIdx : WF_vars(PackagesJoined(a))
    /\ WF_vars(ArchsJoined)

\* the cycles whose termination is checked: a platform without row, with
\* a failing repo.toml, or with a failing descriptor; one project or all
\* of them dropped
InitCycleFair ==
    /\ ServerInit
    /\ fx \in {CycleStart(NetsDropping(D), AenvOf(inp), StartTime) :
                 D \in DropSets \ {{}},
                 inp \in [ArchIdx -> {i \in ArchInputs : i.failing # {} \/ i.repo = "fail" \/ ~i.row}]}

SpecCycleFair == InitCycleFair /\ [][NextCycle]_vars /\ CycleFairness

(***************************************************************************)
(* SpecHandle: one request on the empty cache, hence one refresh cycle,    *)
(* for many combinations of failing calls and parse errors: every outcome  *)
(* of one project's chain beside healthy ones, every outcome shared by all *)
(* projects, and the artifact host's listings failing, lacking rows or     *)
(* holding a row whose date does not parse.                                *)
(***************************************************************************)
HandleNets ==
    {[NetsAllOk(H1) EXCEPT ![2] = p] : p \in ProjNets} \cup {[i \in ProjIdx |-> p] : p \in ProjNets}

\* a listing whose second row has a date that does not parse
ListingBadDate == << Row(NameX86, TRUE, TRUE, StartTime - MS_PER_HOUR),
                     Row(NameAarch, TRUE, FALSE, 0) >>

HandleAenvs ==
    AenvsListings
        \cup {AenvPkgTomlFails, [AenvAllOk EXCEPT !.repoToml[1] = RepoOut("badtoml", None, None)],
              [AenvAllOk EXCEPT !.pkgToml[2]["base"] = NoToml("badtoml")],
              [AenvAllOk EXCEPT !.pkgHtml = Some(ListingBadDate)],
              [AenvAllOk EXCEPT !.imgHtml = Some(ListingBadDate)]}

InitHandle ==
    /\ ServerInit
    /\ fx \in {[op |-> "handle", nets |-> n, aenv |-> e] : n \in HandleNets, e \in HandleAenvs}

\* the request arrives, fetchGitLabData settles, fetchArtifactStatus settles
NextHandle ==
    \/ fx.op = "handle" /\ Arrive(1)
    \/ fx.op = "handle" /\ GitlabDone(1, fx.nets)
    \/ fx.op = "handle" /\ ArtifactDone(1, fx.aenv)

SpecHandle == InitHandle /\ [][NextHandle]_vars

(***************************************************************************)
(* SpecChain: the per-project callbacks of fetchGitLabData taken apart     *)
(* call by call.  Each chain keeps the log of what it did: the requests    *)
(* it issued and what it got for each (read: the response and its JSON     *)
(* body were read; notok: response.ok was false; throw: fetch or .json()   *)
(* raised).  The chains of different projects interleave freely.           *)
(***************************************************************************)
Ev(call, what) == [call |-> call, what |-> what]

\* A plausible slip: the lookup's response.ok not tested
AfterLookup_NoOkCheck(net) ==
    IF net.lookup # "throw"
    THEN [pc |-> "pipeline", evs |-> << Ev("lookup", "read"), Ev("pipeline", "request") >>]
    ELSE [pc |-> "done", evs |-> << Ev("lookup", net.lookup) >>]

\* after await fetch(project) and await projectResponse.json(): return null
\* on a non-OK response, the catch on an error, else the pipeline request
AfterLookup(net) ==
    IF net.lookup = "ok"
    THEN [pc |-> "pipeline", evs |-> << Ev("lookup", "read"), Ev("pipeline", "request") >>]
    ELSE [pc |-> "done", evs |-> << Ev("lookup", net.lookup) >>]

\* after await fetch(pipelines) and await pipelineResponse.json(): the catch
\* on an error, else the commit request
AfterPipeline(net) ==
    IF net.pipeline = "throw"
    THEN [pc |-> "done", evs |-> << Ev("pipeline", "throw") >>]
    ELSE [pc |-> "commit", evs |-> << Ev("pipeline", "read"), Ev("commit", "request") >>]

\* after await fetch(commits) and await commitResponse.json(): the catch on
\* an error, else the return of the ProjectInfo
AfterCommit(net) ==
    [pc |-> "done",
     evs |-> << Ev("commit", IF net.commit.kind = "throw" THEN "throw" ELSE "read") >>]

InitChain ==
    /\ ServerInit
    /\ fx \in {[op |-> "chain", nets |-> n, pc |-> [i \in ProjIdx |-> "idle"],
                log |-> [i \in ProjIdx |-> <<>>], result |-> [i \in ProjIdx |-> None]] :
                 n \in HandleNets}

\* PROJECTS_TO_TRACK.map: each callback runs up to its first await, the
\* lookup request
StartChains ==
    /\ fx.op = "chain" /\ \A i \in ProjIdx : fx.pc[i] = "idle"
    /\ fx' = [fx EXCEPT !.pc = [i \in ProjIdx |-> "lookup"],
                        !.log = [i \in ProjIdx |-> << Ev("lookup", "request") >>]]
    /\ UNCHANGED server

\* the chain of project i goes on after the answer to the call it waits for
ChainStep(i, after) ==
    /\ fx' = [fx EXCEPT !.pc[i] = after.pc,
                        !.log[i] = @ \o after.evs,
                        !.result[i] = IF after.pc = "done"
                                      THEN ProjectChain(i, fx.nets[i]).value ELSE @]
    /\ UNCHANGED server

LookupAnswered(i) ==
    fx.op = "chain" /\ fx.pc[i] = "lookup" /\ ChainStep(i, AfterLookup(fx.nets[i]))

PipelineAnswered(i) ==
    fx.op = "chain" /\ fx.pc[i] = "pipeline" /\ ChainStep(i, AfterPipeline(fx.nets[i]))

CommitAnswered(i) ==
    fx.op = "chain" /\ fx.pc[i] = "commit" /\ ChainStep(i, AfterCommit(fx.nets[i]))

NextChain ==
    \/ StartChains
    \/ \E i \in ProjIdx : LookupAnswered(i)
    \/ \E i \in ProjIdx : PipelineAnswered(i)
    \/ \E i \in ProjIdx : CommitAnswered(i)

SpecChain == InitChain /\ [][NextChain]_vars

(***************************************************************************)
(* SpecScan: the two index scans of one platform callback, for every pair  *)
(* of listings of at most MaxRows rows                                     *)
(***************************************************************************)
MaxRows == 2

\* an entry that holds the token x86 but does not start with it
NameInner == <<"i", "x", "8", "6", "/">>

ScanNames == {NameX86, NameAarch, NameInner}

\* the listings of n rows; the time of a row is its position, so that equal
\* entries at different places are different rows
ListingsOfLen(n) ==
    {[k \in 1..n |-> Row(names[k], shapes[k], TRUE, k)] :
        names \in [1..n -> ScanNames], shapes \in [1..n -> BOOLEAN]}

Listings == UNION {ListingsOfLen(n) : n \in 0..MaxRows}

InitScan ==
    /\ ServerInit
    /\ fx \in {[op |-> "scan", phase |-> "input", htmlPkg |-> h1, htmlImg |-> h2, arch |-> a,
                pkgRow |-> None, imgRow |-> None] :
                 h1 \in Listings, h2 \in Listings, a \in ArchIdx}

\* the two while loops of the platform callback, on one pattern object
RunScan ==
    /\ fx.op = "scan" /\ fx.phase = "input"
    /\ fx' = [fx EXCEPT
                !.phase = "done",
                !.pkgRow = ScanIndex(fx.htmlPkg, ARTIFACTS_TO_TRACK[fx.arch], 0).row,
                !.imgRow = ScanIndex(fx.htmlImg, ARTIFACTS_TO_TRACK[fx.arch],
                               ImgScanStart(ScanIndex(fx.htmlPkg, ARTIFACTS_TO_TRACK[fx.arch], 0))).row]
    /\ UNCHANGED server

NextScan == RunScan

SpecScan == InitScan /\ [][NextScan]_vars

(***************************************************************************)
(* SpecScanAll: the scans of all platform callbacks, in the order in which *)
(* ARTIFACTS_TO_TRACK.map runs them, on every pair of listings; each       *)
(* callback's two scans are recorded with the position they stopped at     *)
(***************************************************************************)
NoScan == [row |-> None, lastIndex |-> 0]

InitScanAll ==
    /\ ServerInit
    /\ fx \in {[op |-> "scanall", htmlPkg |-> h1, htmlImg |-> h2, last |-> NoScan, scans |-> <<>>] :
                 h1 \in Listings, h2 \in Listings}

\* the two while loops of the next platform's callback
ScanPlatform ==
    /\ fx.op = "scanall" /\ Len(fx.scans) < Len(ARTIFACTS_TO_TRACK)
    /\ LET arch == ARTIFACTS_TO_TRACK[Len(fx.scans) + 1]
           pkg == ScanIndex(fx.htmlPkg, arch, PkgScanStart(fx.last))
           img == ScanIndex(fx.htmlImg, arch, ImgScanStart(pkg))
       IN fx' = [fx EXCEPT !.scans = Append(@, [pkg |-> pkg, img |-> img]), !.last = img]
    /\ UNCHANGED server

NextScanAll == ScanPlatform

SpecScanAll == InitScanAll /\ [][NextScanAll]_vars

(***************************************************************************)
(* SpecEntry: one scan of a listing of one row and the entry made of it,   *)
(* for every kind of row and ages around the staleness threshold           *)
(***************************************************************************)
MaxAgeHours == 26

\* whole hours up to MaxAgeHours, each with one millisecond less and more
RowAges == {h * MS_PER_HOUR + e : h \in 0..MaxAgeHours, e \in {-1, 0, 1}}

InitEntry ==
    /\ ServerInit
    /\ fx \in {[op |-> "entry", phase |-> "input",
                html |-> << Row(ARTIFACTS_TO_TRACK[a] \o <<"/">>, shape, valid, StartTime - age) >>,
                arch |-> a, now |-> StartTime, threw |-> FALSE, entry |-> None] :
                 a \in ArchIdx, shape \in BOOLEAN, valid \in BOOLEAN, age \in RowAges}

\* one while loop of the platform callback with the assignments of its body
RunScanEntry ==
    /\ fx.op = "entry" /\ fx.phase = "input"
    /\ fx' = [fx EXCEPT !.phase = "done",
                        !.threw = ScanEntry(fx.html, ARTIFACTS_TO_TRACK[fx.arch], fx.now).threw,
                        !.entry = ScanEntry(fx.html, ARTIFACTS_TO_TRACK[fx.arch], fx.now).value]
    /\ UNCHANGED server

NextEntry == RunScanEntry

SpecEntry == InitEntry /\ [][NextEntry]_vars

(***************************************************************************)
(* Claims about the cache (specification Spec)                             *)
(***************************************************************************)
\* the step just taken was the arrival of a request
Arrived == out.ev \in {"hit", "miss"}

\* the arriving request found a published snapshot in the cache
FoundSnapshot == IsSome(out.before.gitlab) /\ IsSome(out.before.artifact)

\* C1: a request that arrives while the cache holds what a completed refresh
\* stored with capturedAt = t, and now - t < TTL, is answered in the same
\* turn from exactly that data and timestamp (the cache is left as it was)
\* and issues no network call.
C1_ServedFromCache ==
    (Arrived /\ FoundSnapshot /\ out.now - out.before.time < CACHE_DURATION_MS)
        => /\ out.ev = "hit"
           /\ req[out.r].pc = "done"
           /\ out.resp.kind \in {"html", "crash"}
           /\ out.resp.gitlab = out.before.gitlab
           /\ out.resp.artifact = out.before.artifact
           /\ out.resp.time = out.before.time
           /\ out.calls = 0 /\ out.cycles = 0 /\ req[out.r].calls = 0
           /\ Cache = out.before

\* a hit at the last millisecond of the TTL window, rendered as a page
C1_Witness ==
    /\ out.ev = "hit"
    /\ out.resp.kind = "html"
    /\ out.now - out.before.time = CACHE_DURATION_MS - 1

\* C2: a request that finds no snapshot, or one with now - capturedAt >= TTL,
\* starts exactly one refresh cycle; when the cycle publishes, the cache holds
\* the cycle's data with capturedAt equal to the request's own arrival time,
\* and the cache is then valid at every instant n with n - capturedAt < TTL.
C2_MissRefreshes ==
    /\ (Arrived /\ (~FoundSnapshot \/ out.now - out.before.time >= CACHE_DURATION_MS))
           => (out.ev = "miss" /\ req[out.r].pc = "gitlab" /\ req[out.r].cycles = 1)
    /\ \A r \in ReqIds : req[r].cycles <= 1
    /\ out.ev = "publish"
           => /\ out.cycles = 1
              /\ lastCacheTime = out.now
              /\ out.now <= clock
              /\ cachedGitlabData = out.resp.gitlab
              /\ cachedArtifactData = out.resp.artifact
              /\ out.resp.time = out.now
              /\ \A n \in {out.now, out.now + 1, out.now + CACHE_DURATION_MS - 1} :
                     CacheValid(n)
              /\ ~CacheValid(out.now + CACHE_DURATION_MS)

\* a refresh started exactly TTL after the snapshot it replaces was captured
C2_Witness ==
    /\ out.ev = "publish"
    /\ IsSome(out.before.gitlab)
    /\ out.now - out.before.time = CACHE_DURATION_MS

\* a refresh that publishes after the clock has moved on since its request arrived
C2_WitnessLate == out.ev = "publish" /\ clock > out.now

\* the step just taken ended a refresh cycle all of whose network calls failed
EndedAllFailed == out.ev \in {"publish", "error"} /\ out.allFailed

\* C3: when every network call of a refresh cycle fails, the caller gets an
\* error response, not a rendered snapshot.
C3_TotalFailureIsError == EndedAllFailed => out.resp.kind = "error500"

\* C4: a refresh cycle in which every network call fails leaves the three
\* cache variables as they were before the cycle ended.
C4_FailureKeepsCache == EndedAllFailed => Cache = out.before

\* C5: after a refresh cycle whose fetches all failed, the next request finds
\* the cache expired and starts a new refresh cycle.
C5_RetryAfterFailure == (Arrived /\ lastCycleAllFailed) => out.ev = "miss"

\* the path of the tracked project that lists the package
PathOfPkg(name) ==
    PROJECTS_TO_TRACK[CHOOSE i \in ProjIdx :
        \E j \in 1..Len(PROJECTS_TO_TRACK[i].pkg) : PROJECTS_TO_TRACK[i].pkg[j] = name].path

\* the three cache variables are set together, and every package entry of
\* the cached artifact data refers to its project as the cached repository
\* data has it
CacheCoherent ==
    /\ IsSome(cachedGitlabData) <=> IsSome(cachedArtifactData)
    /\ ~IsSome(cachedGitlabData) => lastCacheTime = 0
    /\ IsSome(cachedGitlabData) /\ IsSome(cachedArtifactData) =>
           \A k \in 1..Len(Get(cachedArtifactData)) :
               IsSome(Get(cachedArtifactData)[k].packages) =>
                   \A m \in 1..Len(Get(Get(cachedArtifactData)[k].packages)) :
                       Get(Get(cachedArtifactData)[k].packages)[m].project
                           = FindProject(Get(cachedGitlabData),
                                 PathOfPkg(Get(Get(cachedArtifactData)[k].packages)[m].name))

\* a step in which request r, its artifact fetch settled, stores its own
\* cycle: its repository data, artifact data and arrival time in one step
PublishesOwnCycle(r) ==
    /\ req[r].pc = "artifact"
    /\ req'[r].pc = "done"
    /\ cachedGitlabData' = Some(req[r].gitlabData)
    /\ IsSome(cachedArtifactData')
    /\ lastCacheTime' = req[r].now
    /\ out'.ev = "publish" /\ out'.r = r
    /\ out'.resp.gitlab = cachedGitlabData'
    /\ out'.resp.artifact = cachedArtifactData'
    /\ out'.resp.time = lastCacheTime'

\* C15: no partially built snapshot is ever visible: in every reachable
\* state the cached repository data, artifact data and timestamp are those
\* of one completed refresh cycle, whatever the interleaving of requests;
\* the cache changes only in the one step that stores a whole cycle, so a
\* refresh in progress shows nothing.
C15_SnapshotAtomic ==
    /\ []CacheCoherent
    /\ [][Cache' # Cache => \E r \in ReqIds : PublishesOwnCycle(r)]_vars

\* two refreshes overlap with different repository data; one has stored its
\* cycle while the other is still waiting for the artifact host
C15_Witness ==
    /\ out.ev = "publish"
    /\ \E q \in ReqIds :
           /\ req[q].pc = "artifact"
           /\ Some(req[q].gitlabData) # cachedGitlabData
    /\ Get(cachedArtifactData) # <<>>

\* every package entry of the artifact data refers to its project as the
\* project list g has it
ProjectsFrom(artifact, g) ==
    \A k \in 1..Len(artifact) :
        IsSome(artifact[k].packages) =>
            \A m \in 1..Len(Get(artifact[k].packages)) :
                Get(artifact[k].packages)[m].project
                    = FindProject(g, PathOfPkg(Get(artifact[k].packages)[m].name))

C20_NoSingleFlight ==
    [][\A r \in ReqIds :
          /\ (req[r].pc = "idle" /\ req'[r].pc # "idle" /\ ~CacheValid(clock))
                 => /\ req'[r].pc = "gitlab" /\ req'[r].cycles = 1
                    /\ out'.ev = "miss" /\ out'.r = r
          /\ (req[r].pc = "gitlab" /\ req'[r].pc # "gitlab") => req'[r].pc = "artifact"
          /\ (req[r].pc = "artifact" /\ req'[r].pc # "artifact")
                 => /\ out'.ev = "publish" /\ out'.r = r /\ out'.cycles = 1
                    /\ cachedGitlabData' = Some(req[r].gitlabData)
                    /\ IsSome(cachedArtifactData')
                    /\ lastCacheTime' = req[r].now]_vars

\* the second request has run a cycle of its own and writes the cache over
\* the snapshot the first one published less than the cache duration before
\* the second arrived: both refreshes were in flight together
C20_Witness ==
    /\ out.ev = "publish" /\ out.r = 2 /\ out.cycles = 1
    /\ IsSome(out.before.gitlab) /\ IsSome(out.before.artifact)
    /\ out.before.time <= out.now
    /\ out.now - out.before.time < CACHE_DURATION_MS
    /\ lastCacheTime = out.now

\* C21: the cache timestamp never decreases: a cycle that completes does not
\* replace the cached snapshot by one with an older timestamp, whatever the
\* interleaving of the cycles.
C21_TimestampMonotone ==
    out.ev = "publish" => lastCacheTime >= out.before.time

\* C22: every page sent is rendered from a snapshot taken less than the
\* cache duration before the request's own arrival, and not after it,
\* whatever the interleaving: no request renders a snapshot that was
\* already expired when it arrived.
C22_RenderedSnapshotFresh ==
    out.resp.kind = "html"
        => /\ out.ev \in {"hit", "publish"}
           /\ out.resp.time <= out.now
           /\ out.now - out.resp.time < CACHE_DURATION_MS
           /\ out.ev = "hit" => out.resp.time = out.before.time
           /\ out.ev = "publish" => out.resp.time = out.now

\* a page served from a cached snapshot one millisecond short of expiry
C22_Witness ==
    /\ out.resp.kind = "html"
    /\ out.ev = "hit"
    /\ out.now - out.resp.time = CACHE_DURATION_MS - 1

\* C23: every platform entry stored in the cache is complete: it has a
\* package sequence and a repository descriptor, whether or not an index
\* row was found for the platform.
C23_CachedPlatformsComplete ==
    IsSome(cachedArtifactData) =>
        \A k \in 1..Len(Get(cachedArtifactData)) :
            /\ IsSome(Get(cachedArtifactData)[k].packages)
            /\ IsSome(Get(cachedArtifactData)[k].repository)

\* C24: every package entry of the cached snapshot refers to a repository
\* status that is in the snapshot's repository list; no entry is stored for
\* a package whose repository was dropped by the repository fetch.
C24_PackagesReferToPublishedRepo ==
    (IsSome(cachedArtifactData) /\ IsSome(cachedGitlabData)) =>
        \A k \in 1..Len(Get(cachedArtifactData)) :
            IsSome(Get(cachedArtifactData)[k].packages) =>
                \A m \in 1..Len(Get(Get(cachedArtifactData)[k].packages)) :
                    /\ IsSome(Get(Get(cachedArtifactData)[k].packages)[m].project)
                    /\ \E j \in 1..Len(Get(cachedGitlabData)) :
                           Get(cachedGitlabData)[j]
                               = Get(Get(Get(cachedArtifactData)[k].packages)[m].project)

(***************************************************************************)
(* Claims about fetchGitLabData (specification SpecGitlab)                 *)
(***************************************************************************)
\* the projects whose lookup failed: a non-OK response or a raised error
FailedLookups(nets) == {i \in ProjIdx : nets[i].lookup # "ok"}

\* the same answers, but with every project lookup succeeding
LookupsHealed(nets) == [i \in ProjIdx |-> [nets[i] EXCEPT !.lookup = "ok"]]

\* C6: the result has no status for a project whose lookup failed, and for
\* every other project exactly the status the call returns when no lookup
\* fails; the call itself never rejects.
C6_RepositoryIsolation ==
    (fx.op = "gitlab" /\ fx.phase = "done")
        => /\ ~fx.threw
           /\ \A i \in FailedLookups(fx.nets) :
                  FindProject(fx.result, PROJECTS_TO_TRACK[i].path) = None
           /\ \A i \in ProjIdx \ FailedLookups(fx.nets) :
                  /\ FindProject(fx.result, PROJECTS_TO_TRACK[i].path)
                         = FindProject(FetchGitLabData(LookupsHealed(fx.nets)).value,
                                       PROJECTS_TO_TRACK[i].path)
                  /\ Cardinality({k \in 1..Len(fx.result) :
                                     fx.result[k].path = PROJECTS_TO_TRACK[i].path}) <= 1

\* one lookup raised, another was refused, and the third project's status is there
C6_Witness ==
    /\ fx.op = "gitlab" /\ fx.phase = "done"
    /\ fx.nets[1].lookup = "throw"
    /\ fx.nets[2].lookup = "notok"
    /\ Len(fx.result) = 1
    /\ fx.result[1].path = PROJECTS_TO_TRACK[3].path
    /\ IsSome(fx.result[1].commit)

\* fetchGitLabData has returned
GitlabDoneFx == fx.op = "gitlab" /\ fx.phase = "done" /\ ~fx.threw

\* project i's lookup succeeded and neither of its two later calls raised
ChainReturned(i) ==
    /\ fx.nets[i].lookup = "ok"
    /\ fx.nets[i].pipeline # "throw"
    /\ fx.nets[i].commit.kind # "throw"

\* the entries of the result for project i
StatusesOf(i) == {k \in 1..Len(fx.result) : fx.result[k].path = PROJECTS_TO_TRACK[i].path}

\* C17 as stated: a resolved repository without a pipeline run has state
\* unknown and no pipeline URL, one without a commit has no latest commit,
\* both are in the result, and every returned state is one of success,
\* failed, running, pending, canceled, unknown.
C17_AbsenceIsUnknown ==
    GitlabDoneFx =>
        /\ \A i \in ProjIdx : ChainReturned(i) =>
               /\ StatusesOf(i) # {}
               /\ \A k \in StatusesOf(i) :
                      /\ fx.nets[i].pipeline = "none" =>
                             fx.result[k].status = "unknown" /\ fx.result[k].pipelineUrl = <<>>
                      /\ fx.nets[i].commit.kind = "none" => fx.result[k].commit = <<>>
        /\ \A k \in 1..Len(fx.result) :
               fx.result[k].status
                   \in {"success", "failed", "running", "pending", "canceled", "unknown"}

\* C17 amended: a resolved repository without a pipeline run has the status
\* no-pipelines and no pipeline URL, one without a commit has no latest
\* commit, both are in the result when neither call raised, and every
\* returned status is the string GitLab gave for the latest pipeline,
\* unchanged, or no-pipelines.
C17_AbsenceIsNoPipelines ==
    GitlabDoneFx =>
        /\ \A i \in ProjIdx : ChainReturned(i) =>
               /\ StatusesOf(i) # {}
               /\ \A k \in StatusesOf(i) :
                      /\ fx.nets[i].pipeline = "none" =>
                             fx.result[k].status = "no-pipelines" /\ fx.result[k].pipelineUrl = <<>>
                      /\ fx.nets[i].pipeline # "none" =>
                             fx.result[k].status = fx.nets[i].pipeline
                      /\ fx.nets[i].commit.kind = "none" => fx.result[k].commit = <<>>
        /\ \A k \in 1..Len(fx.result) :
               fx.result[k].status \in (PipelineOutcomes \ {"throw", "none"}) \cup {"no-pipelines"}

\* one repository with neither pipeline nor commit, one whose pipeline was
\* skipped, both returned
C17_Witness ==
    /\ GitlabDoneFx
    /\ ChainReturned(1) /\ fx.nets[1].pipeline = "none" /\ fx.nets[1].commit.kind = "none"
    /\ ChainReturned(2) /\ fx.nets[2].pipeline = "skipped"
    /\ Len(fx.result) >= 2
    /\ fx.result[1].status = "no-pipelines" /\ fx.result[1].commit = <<>>
    /\ fx.result[2].status = "skipped"

\* C18 as stated: the result has exactly one status for every tracked
\* repository whose lookup succeeded, also when its pipeline or commit call
\* then fails; only a failed lookup drops a repository.
C18_OnlyLookupDrops ==
    (fx.op = "gitlab" /\ fx.phase = "done")
        => /\ ~fx.threw
           /\ \A i \in ProjIdx :
                  Cardinality(StatusesOf(i)) = (IF fx.nets[i].lookup = "ok" THEN 1 ELSE 0)

\* C18 amended: the result has exactly one status for every tracked
\* repository whose lookup succeeded and whose pipeline and commit calls
\* did not raise, and none for any other: a failed lookup, or a network or
\* parse error of the pipeline or commit call, drops that repository.
C18_AnyChainErrorDrops ==
    (fx.op = "gitlab" /\ fx.phase = "done")
        => /\ ~fx.threw
           /\ \A i \in ProjIdx :
                  Cardinality(StatusesOf(i)) = (IF ChainReturned(i) THEN 1 ELSE 0)

\* lookups all fine; the first repository's pipeline call and the second's
\* commit call raise: only the third is returned
C18_Witness ==
    /\ GitlabDoneFx
    /\ \A i \in ProjIdx : fx.nets[i].lookup = "ok"
    /\ fx.nets[1].pipeline = "throw"
    /\ fx.nets[2].pipeline # "throw" /\ fx.nets[2].commit.kind = "throw"
    /\ ChainReturned(3)
    /\ Len(fx.result) = 1
    /\ fx.result[1].path = PROJECTS_TO_TRACK[3].path

(***************************************************************************)
(* Claims about fetchArtifactStatus (specification SpecArtifact)           *)
(***************************************************************************)
ArtifactDoneFx == fx.op = "artifact" /\ fx.phase = "done"

\* both listings were downloaded, so the per-platform fetches ran
ListingsOk == IsSome(fx.aenv.pkgHtml) /\ IsSome(fx.aenv.imgHtml)

\* platform a has an entry in the returned list
Published(a) == \E k \in 1..Len(fx.result) : fx.result[k].name = ARTIFACTS_TO_TRACK[a]

\* C7: when the fetch of one platform fails, only that platform is missing
\* from the result: every platform whose own fetch succeeded is published.
C7_PlatformIsolation ==
    (ArtifactDoneFx /\ ListingsOk)
        => \A a \in ArchIdx : ~fx.archs[a].threw => Published(a)

\* platform a's fetch came to its package descriptors: a package index row
\* was found and repo.toml was downloaded and parsed
ReachedPackages(a) ==
    /\ IsSome(ScanIndex(Get(fx.aenv.pkgHtml), ARTIFACTS_TO_TRACK[a], 0).row)
    /\ fx.aenv.repoToml[a].kind = "ok"

\* C8: on every platform whose fetch comes to its package descriptors, the
\* package sequence has one entry per configured package, in order; an entry's
\* descriptor is absent exactly when that package's own download or parse
\* failed and is the parsed descriptor otherwise, whatever happened to its
\* siblings; the platform's promise does not reject.
C8_PackageIsolation ==
    (ArtifactDoneFx /\ ListingsOk)
        => \A a \in ArchIdx : ReachedPackages(a)
              => /\ ~fx.archs[a].threw
                 /\ IsSome(Get(fx.archs[a].value).packages)
                 /\ LET pkgs == Get(Get(fx.archs[a].value).packages)
                        core == CorePkgs(fx.gitlab)
                    IN /\ Len(pkgs) = Len(core)
                       /\ \A k \in 1..Len(core) :
                              /\ pkgs[k].name = core[k].name
                              /\ pkgs[k].toml =
                                     IF fx.aenv.pkgToml[a][core[k].name].kind = "ok"
                                     THEN Some(fx.aenv.pkgToml[a][core[k].name].toml)
                                     ELSE None
                 /\ Published(a)
                        => \E k \in 1..Len(fx.result) : Some(fx.result[k]) = fx.archs[a].value

\* one descriptor's download fails, another's parse fails, the third is
\* there, and the platform is published with all three entries
C8_Witness ==
    /\ ArtifactDoneFx /\ ListingsOk
    /\ fx.aenv.pkgToml[1]["base"].kind = "fail"
    /\ fx.aenv.pkgToml[1]["base-initfs"].kind = "badtoml"
    /\ fx.aenv.pkgToml[1]["relibc"].kind = "ok"
    /\ Len(fx.result) = 2
    /\ Len(Get(fx.result[1].packages)) = 3
    /\ IsSome(Get(fx.result[1].packages)[1].toml)
    /\ ~IsSome(Get(fx.result[1].packages)[2].toml)

(***************************************************************************)
(* Claims about the classification (specification SpecClassify)            *)
(***************************************************************************)
\* generateHtml returned a page for the entry
Classified == fx.op = "classify" /\ fx.phase = "done" /\ ~fx.threw

\* the class the page gives the package
ClassOf == fx.page[1].items[1].class

\* the first seven characters of a hash
Prefix7(h) == [i \in 1..Min(7, Len(h)) |-> h[i]]

\* the repository's latest commit hash, when there is one
HasCommit == IsSome(Get(fx.project).commit)
CommitHash == Get(Get(fx.project).commit).id

\* C9 as stated: with a present descriptor, synced exactly when the first 7
\* characters of the descriptor's built commit hash (commit_identifier) equal
\* the first 7 characters of the repository's latest commit hash.
C9_SyncedIffBuiltHash ==
    (Classified /\ IsSome(fx.toml))
        => (ClassOf = "latest"
               <=> (HasCommit /\ Prefix7(Get(fx.toml).commit_identifier) = Prefix7(CommitHash)))

\* a hash cut to seven characters, the placeholder - standing for an empty or missing one
Shown(present, h) == IF present /\ Prefix7(h) # <<>> THEN Prefix7(h) ELSE <<"-">>

\* C9 amended: with a present descriptor, synced exactly when the first 7
\* characters of the descriptor's source commit hash (source_identifier)
\* equal the first 7 characters of the repository's latest commit hash, an
\* empty hash or an absent latest commit counting as the placeholder -.
C9_SyncedIffSourceHash ==
    (Classified /\ IsSome(fx.toml))
        => (ClassOf = "latest"
               <=> Shown(TRUE, Get(fx.toml).source_identifier)
                       = Shown(HasCommit, IF HasCommit THEN CommitHash ELSE <<>>))

\* source hash and latest commit agree on seven characters and differ after,
\* while the built hash is another one: synced
C9_Witness ==
    /\ Classified /\ IsSome(fx.toml) /\ HasCommit
    /\ Get(fx.toml).source_identifier = H1x
    /\ Get(fx.toml).commit_identifier = H2
    /\ CommitHash = H1
    /\ ClassOf = "latest"

\* C10: a package whose descriptor is absent is classified outdated, for
\* every repository status, the one without a latest commit included.
C10_AbsentIsOutdated ==
    (Classified /\ ~IsSome(fx.toml)) => ClassOf = "outdated"

\* the descriptor's publish time is a date less than the threshold before now
PublishedWithin(hours) ==
    /\ Get(fx.toml).time_identifier.text = "date"
    /\ fx.now - Get(fx.toml).time_identifier.ms < hours * MS_PER_HOUR

\* the two hashes shown for the package differ
HashesDiffer ==
    Shown(TRUE, Get(fx.toml).source_identifier)
        # Shown(HasCommit, IF HasCommit THEN CommitHash ELSE <<>>)

\* C11: with a present descriptor and differing truncated hashes the package
\* is pending when now - publishedAt < 24 h (strictly) and outdated
\* otherwise, so outdated at exactly 24 h; the threshold is the configured
\* constant; every classified package has exactly one of the three states.
C11_PendingWithinWindow ==
    /\ ARTIFACT_STALE_HOURS = 24
    /\ Classified => ClassOf \in {"latest", "pending", "outdated"}
    /\ (Classified /\ IsSome(fx.toml) /\ HashesDiffer)
           => ClassOf = (IF PublishedWithin(24) THEN "pending" ELSE "outdated")

\* differing hashes and a descriptor published exactly 24 h ago: outdated
C11_Witness ==
    /\ Classified /\ IsSome(fx.toml) /\ HashesDiffer
    /\ Get(fx.toml).time_identifier.text = "date"
    /\ fx.now - Get(fx.toml).time_identifier.ms = 24 * MS_PER_HOUR
    /\ ClassOf = "outdated"

\* two hashes of at least seven characters that agree on the first seven
\* and differ afterwards
CollideOn7(a, b) == Len(a) >= 7 /\ Len(b) >= 7 /\ Prefix7(a) = Prefix7(b) /\ a # b

\* C28: classification reads only the first 7 characters of each hash: a
\* descriptor whose compared hash (source_identifier) and the latest commit
\* hash agree on their first 7 characters and differ afterwards is
\* classified synced, whatever the descriptor's publish time.
C28_PrefixCollisionIsSynced ==
    (Classified /\ IsSome(fx.toml) /\ HasCommit
        /\ CollideOn7(Get(fx.toml).source_identifier, CommitHash))
        => ClassOf = "latest"

\* colliding hashes on a descriptor published 48 h ago, which would be
\* outdated if the hashes were told apart
C28_Witness ==
    /\ Classified /\ IsSome(fx.toml) /\ HasCommit
    /\ Get(fx.toml).source_identifier = H1 /\ CommitHash = H1x
    /\ Get(fx.toml).time_identifier.text = "date"
    /\ fx.now - Get(fx.toml).time_identifier.ms = 48 * MS_PER_HOUR
    /\ ClassOf = "latest"

(***************************************************************************)
(* Claims about the index scan (specification SpecScan)                    *)
(***************************************************************************)
\* name begins with the token, character by character
HasPrefix(name, token) ==
    /\ Len(name) >= Len(token)
    /\ \A i \in 1..Len(token) : name[i] = token[i]

\* the places of the well-formed rows of a listing whose entry starts with the token
MatchingRows(html, token) ==
    {k \in 1..Len(html) : html[k].shape /\ HasPrefix(html[k].name, token)}

\* the first of them in document order, or absent
FirstMatch(html, token) ==
    IF MatchingRows(html, token) = {} THEN <<>>
    ELSE << html[CHOOSE k \in MatchingRows(html, token) :
                     \A m \in MatchingRows(html, token) : k <= m] >>

\* C12: for every listing and token, each of the two scans returns the first
\* row in document order whose entry starts with the token, never a later
\* one, and absent when there is none; rows of other platforms before it
\* have no effect.
C12_FirstMatchingRow ==
    (fx.op = "scan" /\ fx.phase = "done")
        => /\ fx.pkgRow = FirstMatch(fx.htmlPkg, ARTIFACTS_TO_TRACK[fx.arch])
           /\ fx.imgRow = FirstMatch(fx.htmlImg, ARTIFACTS_TO_TRACK[fx.arch])

\* another platform's row first, then two rows of the token: the first of the two is returned
C12_Witness ==
    /\ fx.op = "scan" /\ fx.phase = "done"
    /\ Len(fx.htmlImg) = MaxRows
    /\ fx.htmlImg[1].shape /\ ~HasPrefix(fx.htmlImg[1].name, ARTIFACTS_TO_TRACK[fx.arch])
    /\ Cardinality(MatchingRows(fx.htmlPkg, ARTIFACTS_TO_TRACK[fx.arch])) = 2
    /\ fx.pkgRow = << fx.htmlPkg[1] >>
    /\ fx.imgRow = << fx.htmlImg[2] >>

(***************************************************************************)
(* Claims about index entries (specification SpecEntry)                    *)
(***************************************************************************)
\* the scan made an entry of the row
EntryMade == fx.op = "entry" /\ fx.phase = "done" /\ ~fx.threw /\ fx.entry # <<>>

\* now - lastModified of the entry, in milliseconds
EntryAge == fx.now - fx.entry[1].lastModified

\* C13: an index entry is stale exactly when now - lastModified is strictly
\* more than 24 hours: not stale at 23 h and at exactly 24 h, stale at 25 h.
C13_StaleAfterThreshold ==
    EntryMade
        => /\ fx.entry[1].isStale <=> (EntryAge > 24 * MS_PER_HOUR)
           /\ EntryAge = 23 * MS_PER_HOUR => ~fx.entry[1].isStale
           /\ EntryAge = 24 * MS_PER_HOUR => ~fx.entry[1].isStale
           /\ EntryAge = 25 * MS_PER_HOUR => fx.entry[1].isStale

\* an entry modified exactly 24 h ago, not stale
C13_Witness ==
    EntryMade /\ EntryAge = 24 * MS_PER_HOUR /\ ~fx.entry[1].isStale

\* C14: a row whose timestamp is missing or malformed, also one of the right
\* shape that is no valid date, is skipped: the scan raises nothing and
\* makes no entry of it.
C14_MalformedRowSkipped ==
    (fx.op = "entry" /\ fx.phase = "done" /\ (~fx.html[1].shape \/ ~fx.html[1].valid))
        => ~fx.threw /\ fx.entry = <<>>

(***************************************************************************)
(* Claims about repo.toml (specification SpecArtifact)                     *)
(***************************************************************************)
\* platform a's callback parsed its repo.toml and resolved
RepoParsed(a) ==
    /\ ArtifactDoneFx
    /\ fx.archs # <<>>
    /\ ~fx.archs[a].threw
    /\ fx.archs[a].value[1].repository # <<>>

\* the repository descriptor of platform a, and the parsed document it was made of
RepoOfArch(a) == fx.archs[a].value[1].repository[1]
ParsedRepo(a) == fx.aenv.repoToml[a]

\* C16: every repository descriptor made of a parsed repo.toml has both
\* maps: one missing from the document is the empty map, one present is
\* kept as it is.
C16_RepoMapsDefault ==
    \A a \in ArchIdx :
        RepoParsed(a) =>
            /\ ParsedRepo(a).kind = "ok"
            /\ RepoOfArch(a).packages
                   = (IF ParsedRepo(a).packages = <<>> THEN {} ELSE ParsedRepo(a).packages[1])
            /\ RepoOfArch(a).outdated_packages
                   = (IF ParsedRepo(a).outdated_packages = <<>> THEN {}
                      ELSE ParsedRepo(a).outdated_packages[1])

\* one platform's document lacks outdated_packages only, the other's lacks both
C16_Witness ==
    /\ RepoParsed(1) /\ RepoParsed(2)
    /\ ParsedRepo(1).packages = << {"relibc"} >> /\ ParsedRepo(1).outdated_packages = <<>>
    /\ RepoOfArch(1).packages = {"relibc"} /\ RepoOfArch(1).outdated_packages = {}
    /\ ParsedRepo(2).packages = <<>> /\ ParsedRepo(2).outdated_packages = <<>>
    /\ RepoOfArch(2).packages = {} /\ RepoOfArch(2).outdated_packages = {}

(***************************************************************************)
(* Claims about repeated reads of one snapshot (specification SpecReread)  *)
(***************************************************************************)
\* the reads of the cached entry that rendered a page
Rendered == {n \in 1..Len(fx.reads) : ~fx.reads[n].threw}

\* C25 as stated: for a fixed cached snapshot every read within the cache
\* duration reports the same sync state for the package, whenever it happens.
C25_SameStateAtEveryRead ==
    fx.op = "reread" =>
        \A n1 \in Rendered, n2 \in Rendered : fx.reads[n1].class = fx.reads[n2].class

\* the descriptor was published less than 24 h before time t
RecentAt(t) ==
    /\ fx.toml # <<>>
    /\ fx.toml[1].time_identifier.text = "date"
    /\ t - fx.toml[1].time_identifier.ms < 24 * MS_PER_HOUR

\* C25 amended: the sync state is computed at each read from the cached
\* data and the time of the read: synced is reported by every read or by
\* none; a package that is not synced is pending at the reads that happen
\* less than 24 h after its publish time and outdated at the others, so it
\* may go from pending to outdated, never back, between two reads.
C25_StateByReadTime ==
    fx.op = "reread" =>
        /\ \A n1 \in Rendered, n2 \in Rendered :
               /\ fx.reads[n1].class = "latest" <=> fx.reads[n2].class = "latest"
               /\ (n1 < n2 /\ fx.reads[n1].class = "outdated") => fx.reads[n2].class # "pending"
        /\ \A n \in Rendered :
               fx.reads[n].class # "latest" =>
                   fx.reads[n].class = (IF RecentAt(fx.reads[n].at) THEN "pending" ELSE "outdated")

\* the same cached entry read twice within the cache duration: pending
\* first, outdated one millisecond later
C25_Witness ==
    /\ fx.op = "reread" /\ Len(fx.reads) = 2
    /\ fx.reads[1].class = "pending" /\ fx.reads[2].class = "outdated"
    /\ fx.reads[2].at = fx.reads[1].at + 1
    /\ fx.reads[2].at - fx.cachedAt < CACHE_DURATION_MS

(***************************************************************************)
(* Claims about the fan-outs of one refresh cycle (specification SpecCycle)*)
(***************************************************************************)
\* the order in which the promises of a log settled
CompletionOrder(log) == [k \in 1..Len(log) |-> log[k].idx]

\* the configured paths of the projects whose chain did not come back null,
\* in configuration order
KeptPaths ==
    Flatten([i \in ProjIdx |->
                IF IsSome(ProjectChain(i, fx.nets[i]).value)
                THEN << PROJECTS_TO_TRACK[i].path >> ELSE <<>>])

\* C26: in the result of a cycle the repositories are in the order of
\* PROJECTS_TO_TRACK restricted to those not dropped, and the platforms are
\* in the order of ARTIFACTS_TO_TRACK, whatever the order in which the
\* per-repository and per-platform fetches completed.
C26_ConfigOrderKept ==
    /\ (fx.op = "cycle" /\ fx.phase \in {"archs", "done"}) =>
           [k \in 1..Len(fx.gitlab) |-> fx.gitlab[k].path] = KeptPaths
    /\ (fx.op = "cycle" /\ fx.phase = "done" /\ ~fx.rejected) =>
           [k \in 1..Len(fx.result) |-> fx.result[k].name] = ARTIFACTS_TO_TRACK

\* every repository kept, the repositories and the platforms completed in
\* the reverse of the configuration order
C26_Witness ==
    /\ fx.op = "cycle" /\ fx.phase = "done" /\ ~fx.rejected
    /\ CompletionOrder(fx.projLog) = <<3, 2, 1>>
    /\ CompletionOrder(fx.archLog) = <<2, 1>>
    /\ Len(fx.gitlab) = 3 /\ Len(fx.result) = 2

\* the package names configured on the tracked repositories, in
\* configuration order
ConfiguredPkgNames == Flatten([i \in ProjIdx |-> PROJECTS_TO_TRACK[i].pkg])

\* the platform callbacks that returned with a package index row
ReturnedWithRow ==
    {k \in 1..Len(fx.archLog) :
        ~fx.archLog[k].res.threw /\ IsSome(Get(fx.archLog[k].res.value).pkg)}

\* C27: a platform for which a package index row was found has one package
\* entry for each configured package name, in configuration order,
\* whatever the outcomes and the completion order of the descriptor fetches.
C27_OneEntryPerConfiguredPackage ==
    fx.op = "cycle" =>
        \A k \in ReturnedWithRow :
            /\ IsSome(Get(fx.archLog[k].res.value).packages)
            /\ [m \in 1..Len(Get(Get(fx.archLog[k].res.value).packages)) |->
                   Get(Get(fx.archLog[k].res.value).packages)[m].name] = ConfiguredPkgNames

\* a platform whose descriptors completed in reverse order, one of them
\* failing, has returned
C27_Witness ==
    /\ fx.op = "cycle"
    /\ \E k \in ReturnedWithRow :
           /\ CompletionOrder(fx.pkgLog[fx.archLog[k].idx]) = <<3, 2, 1>>
           /\ \E m \in 1..3 : ~IsSome(Get(Get(fx.archLog[k].res.value).packages)[m].toml)
           /\ \E m \in 1..3 : IsSome(Get(Get(fx.archLog[k].res.value).packages)[m].toml)

(***************************************************************************)
(* Claims about one refresh cycle under failures (specification SpecHandle)*)
(***************************************************************************)
\* C29: neither fetchGitLabData nor fetchArtifactStatus raises to the
\* handler: whatever calls fail and whatever does not parse, each resolves
\* to a list, the refresh cycle ends by storing both lists and the
\* timestamp in the cache, and the HTTP 500 branch is not taken.
C29_FetchesNeverRaise ==
    fx.op = "handle" =>
        /\ out.ev # "error" /\ out.resp.kind # "error500"
        /\ req[1].pc = "artifact" => out.ev = "gitlab"
        /\ req[1].pc = "done" =>
               /\ out.ev = "publish"
               /\ IsSome(cachedGitlabData) /\ IsSome(cachedArtifactData)
               /\ lastCacheTime = out.now /\ out.now = StartTime

\* every GitLab call raises and the package listing cannot be downloaded:
\* the cycle has stored two empty lists
C29_Witness ==
    /\ fx.op = "handle" /\ req[1].pc = "done"
    /\ \A i \in ProjIdx : fx.nets[i].lookup = "throw"
    /\ ~IsSome(fx.aenv.pkgHtml)
    /\ cachedGitlabData = Some(<<>>) /\ cachedArtifactData = Some(<<>>)
    /\ lastCacheTime = StartTime

(***************************************************************************)
(* Termination of a refresh cycle (specification SpecCycleFair)            *)
(***************************************************************************)
\* fetchArtifactStatus has returned to the handler, which stores and
\* publishes in the same turn, or fetchGitLabData has raised to its catch
CycleEnded == fx.phase \in {"done", "failed"}

\* every chain, platform callback and descriptor fetch that was started has
\* run to its end
NothingInFlight ==
    /\ SettledIdx(fx.projLog) = ProjIdx
    /\ \A a \in ArchIdx :
           /\ fx.stage[a] \in {"settled", "rejected"}
           /\ a \in SettledIdx(fx.archLog)
           /\ fx.pkgLog[a] # <<>> => SettledIdx(fx.pkgLog[a]) = 1..MaxPkgs

\* C30: when every network call is answered in the end, each fan-out is
\* joined once all its members have resolved or failed, the cycle reaches
\* publication or the error branch, and the fetches of the siblings of a
\* failed member are neither left hanging nor cancelled: they all run to
\* their end.
C30_CycleTerminates ==
    /\ (SettledIdx(fx.projLog) = ProjIdx) ~> (fx.phase # "projects")
    /\ \A a \in ArchIdx :
           (fx.stage[a] = "pkgs" /\ SettledIdx(fx.pkgLog[a]) = 1..MaxPkgs)
               ~> (fx.stage[a] = "settled")
    /\ (SettledIdx(fx.archLog) = ArchIdx) ~> (fx.phase = "done")
    /\ <>[](CycleEnded /\ NothingInFlight)

\* the first platform's repo.toml failed and the platform join has given
\* up, while the second platform went on and fetched all its descriptors
C30_Witness ==
    /\ fx.op = "cycle" /\ fx.phase = "done" /\ fx.rejected
    /\ fx.stage[1] = "rejected" /\ fx.stage[2] = "settled"
    /\ CompletionOrder(fx.archLog) = <<1, 2>>
    /\ SettledIdx(fx.pkgLog[2]) = 1..MaxPkgs

(***************************************************************************)
(* Claims about the order of a chain's calls (specification SpecChain)     *)
(***************************************************************************)
\* the places in project i's log where the event is found
PlacesOf(i, call, what) ==
    {k \in 1..Len(fx.log[i]) : fx.log[i][k] = Ev(call, what)}

\* the requests of project i in the order in which they were issued
RequestsOf(i) ==
    LET reqs == SelectSeq(fx.log[i], LAMBDA e : e.what = "request")
    IN [k \in 1..Len(reqs) |-> reqs[k].call]

\* s is an initial part of t
IsPrefixOf(s, t) == Len(s) <= Len(t) /\ \A k \in 1..Len(s) : s[k] = t[k]

\* C31: in each project's chain the requests are issued in the order
\* lookup, pipeline, commit, each at most once; a project whose lookup
\* failed or was answered non-OK gets no pipeline and no commit request;
\* the pipeline request follows the reading of the lookup response and the
\* commit request follows the reading of the pipeline response.
C31_ChainCallsOrdered ==
    fx.op = "chain" =>
        \A i \in ProjIdx :
            /\ IsPrefixOf(RequestsOf(i), << "lookup", "pipeline", "commit" >>)
            /\ fx.nets[i].lookup # "ok" =>
                   PlacesOf(i, "pipeline", "request") \cup PlacesOf(i, "commit", "request") = {}
            /\ \A k \in PlacesOf(i, "pipeline", "request") :
                   \E j \in PlacesOf(i, "lookup", "read") : j < k
            /\ \A k \in PlacesOf(i, "commit", "request") :
                   \E j \in PlacesOf(i, "pipeline", "read") : j < k
            /\ fx.pc[i] = "done" => Len(RequestsOf(i)) = ProjectCalls(fx.nets[i])

\* a refused lookup ended its chain after one request, while another chain
\* has read its pipeline response and issued its commit request
C31_Witness ==
    /\ fx.op = "chain"
    /\ fx.nets[2].lookup = "notok" /\ fx.pc[2] = "done"
    /\ fx.log[2] = << Ev("lookup", "request"), Ev("lookup", "notok") >>
    /\ fx.pc[1] = "commit"
    /\ fx.log[1] = << Ev("lookup", "request"), Ev("lookup", "read"), Ev("pipeline", "request"),
                      Ev("pipeline", "read"), Ev("commit", "request") >>

(***************************************************************************)
(* Claims about the scan position (specification SpecScanAll)              *)
(***************************************************************************)
\* C32: for every platform the image scan finds the first matching row of
\* the whole image listing, wherever the package scan stopped, and both
\* scans of a platform find what they find on their own, wherever the
\* scans of the platform before it stopped.
C32_ScanPositionIsolated ==
    fx.op = "scanall" =>
        \A a \in 1..Len(fx.scans) :
            /\ fx.scans[a].img.row = FirstMatch(fx.htmlImg, ARTIFACTS_TO_TRACK[a])
            /\ fx.scans[a].pkg.row = FirstMatch(fx.htmlPkg, ARTIFACTS_TO_TRACK[a])

\* the first platform's package scan stopped behind row 2 and its image
\* scan found row 1; the second platform's package scan found row 1, where
\* the first platform's image scan had stopped
C32_Witness ==
    /\ fx.op = "scanall" /\ Len(fx.scans) = 2
    /\ fx.scans[1].pkg.lastIndex = 2 /\ IsSome(fx.scans[1].pkg.row)
    /\ fx.scans[1].img.lastIndex = 1 /\ fx.scans[1].img.row = << fx.htmlImg[1] >>
    /\ fx.scans[2].pkg.row = << fx.htmlPkg[1] >>

====
